---- MODULE Spec2Model ----
(***************************************************************************)
(* Model of the code-analysis core of code-contractor-mcp:                 *)
(*   CodeAnalyzer (outline / extract / replace, AST path and regex         *)
(*   fallback), SearchEngine hit classification, and the                   *)
(*   ast_replace_element tool handlers of server.js.                       *)
(*                                                                         *)
(* Text abstraction.  A source text is a sequence of tokens; the token     *)
(* "\n" is the line terminator, " " at the head of a line is its leading   *)
(* white space, "()" is a parameter / argument list.  Tokens on one line   *)
(* are separated by single blanks where the concrete text needs them, so   *)
(* every \s+ and \s* between two tokens of a regular expression is         *)
(* satisfiable and is not written in the token patterns below.  Character  *)
(* offsets (startIndex, endIndex, slice) become token offsets, 0-based as  *)
(* in the JavaScript source.                                               *)
(***************************************************************************)
EXTENDS Integers, Sequences, FiniteSets, TLC

NL == "\n"
WS == " "

\* tokens that match \w+ (identifiers and keywords)
Words ==
    {"add", "sub", "x", "export", "function", "class", "const", "interface",
     "type", "async", "static", "fn", "if", "new", "return"}

IsWord(tok) == tok \in Words

Min(a, b) == IF a < b THEN a ELSE b
Max(a, b) == IF a > b THEN a ELSE b

\* String.prototype.slice(from, to) and slice(from) on token offsets
Slice(s, from, to) == SubSeq(s, from + 1, to)
SliceFrom(s, from) == SubSeq(s, from + 1, Len(s))

\* sourceCode.split('\n')
RECURSIVE SplitLines(_)
SplitLines(s) ==
    IF \A i \in 1..Len(s) : s[i] # NL
    THEN <<s>>
    ELSE LET k == CHOOSE i \in 1..Len(s) :
                      s[i] = NL /\ \A j \in 1..(i - 1) : s[j] # NL
         IN  <<SubSeq(s, 1, k - 1)>> \o SplitLines(SubSeq(s, k + 1, Len(s)))

\* lines.join('\n')
RECURSIVE JoinLines(_)
JoinLines(ls) ==
    IF Len(ls) = 0 THEN <<>>
    ELSE IF Len(ls) = 1 THEN ls[1]
    ELSE ls[1] \o <<NL>> \o JoinLines(Tail(ls))

\* lines.slice(from, to) on 0-based row numbers, to exclusive
SliceLines(ls, from, to) == SubSeq(ls, from + 1, Min(to, Len(ls)))

\* line.trim(): the leading white-space token is dropped
Trim(line) == IF Len(line) > 0 /\ line[1] = WS THEN Tail(line) ELSE line

\* 0-based row of the token at 0-based offset off
RowOf(s, off) == Cardinality({i \in 1..Min(off, Len(s)) : s[i] = NL})

(***************************************************************************)
(* Token regular expressions.  A pattern is a sequence of elements, all    *)
(* anchored at the start of the line (every pattern of the tables begins   *)
(* with ^) and open at the end unless it finishes with End.  Matching is   *)
(* greedy with backtracking, as in JavaScript.  The result is <<>> for no  *)
(* match and <<name>> for a match, name being the capture ("" if none).    *)
(***************************************************************************)
Lit(S)   == [t |-> "lit",   s |-> S]
Opt(S)   == [t |-> "opt",   s |-> S]
Star(S)  == [t |-> "star",  s |-> S]
NStar(S) == [t |-> "nstar", s |-> S]
Cap      == [t |-> "cap",   s |-> {}]
CapOf(S) == [t |-> "capof", s |-> S]
End      == [t |-> "end",   s |-> {}]

RECURSIVE MatchFrom(_, _, _, _, _)
MatchFrom(pat, pi, line, li, cap) ==
    IF pi > Len(pat) THEN <<cap>>
    ELSE
      LET e    == pat[pi]
          has  == li <= Len(line)
          take == MatchFrom(pat, pi + 1, line, li + 1, cap)
          skip == MatchFrom(pat, pi + 1, line, li, cap)
          more == MatchFrom(pat, pi, line, li + 1, cap)
      IN  CASE e.t = "lit"   -> IF has /\ line[li] \in e.s THEN take ELSE <<>>
            [] e.t = "opt"   -> IF has /\ line[li] \in e.s /\ take # <<>>
                                THEN take ELSE skip
            [] e.t = "star"  -> IF has /\ line[li] \in e.s /\ more # <<>>
                                THEN more ELSE skip
            [] e.t = "nstar" -> IF has /\ line[li] \notin e.s /\ more # <<>>
                                THEN more ELSE skip
            [] e.t = "cap"   -> IF has /\ IsWord(line[li])
                                THEN MatchFrom(pat, pi + 1, line, li + 1, line[li])
                                ELSE <<>>
            [] e.t = "capof" -> IF has /\ line[li] \in e.s
                                THEN MatchFrom(pat, pi + 1, line, li + 1, line[li])
                                ELSE <<>>
            [] e.t = "end"   -> IF has THEN <<>> ELSE skip

\* line.match(regex) / regex.test(line)
Match(pat, line) == MatchFrom(pat, 1, line, 1, "")
Test(pat, line) == Match(pat, line) # <<>>

\* /\bname\b/.test(line)
ContainsWord(line, name) == \E i \in 1..Len(line) : line[i] = name

EXPORT == Opt({"export"})
ASYNC == Opt({"async"})
DECLKW == Lit({"const", "let", "var"})
GENERIC == Opt({"<>"})
PARAMS == Lit({"()"})
TsMods == {"public", "private", "protected", "static", "async", "readonly", WS}
JavaMods == {"public", "private", "protected", "static", "final", "abstract", WS}
JavaMethodMods == JavaMods \cup {"synchronized"}
PhpMods == {"public", "private", "protected", "static", WS}

\* the pattern table of _getOutlineWithRegex, in table order
OutlinePatterns == <<
    \* JavaScript/TypeScript functions
    [regex |-> <<EXPORT, ASYNC, Lit({"function"}), Cap>>, type |-> "function", style |-> ""],
    [regex |-> <<EXPORT, DECLKW, Cap, Lit({"=", ":"}), NStar({"=", "=>"}), Lit({"=>"})>>,
        type |-> "function", style |-> "arrow"],
    [regex |-> <<EXPORT, DECLKW, Cap, Lit({"="}), ASYNC, Lit({"function"})>>,
        type |-> "function", style |-> ""],
    [regex |-> <<EXPORT, DECLKW, Cap, Lit({"="}), Lit({"async"}), Lit({"()"})>>,
        type |-> "function", style |-> "arrow"],
    \* classes, interfaces, type aliases, enums, namespaces
    [regex |-> <<EXPORT, Opt({"abstract"}), Lit({"class"}), Cap>>, type |-> "class", style |-> ""],
    [regex |-> <<EXPORT, Lit({"interface"}), Cap>>, type |-> "interface", style |-> ""],
    [regex |-> <<EXPORT, Lit({"type"}), Cap, GENERIC, Lit({"="})>>, type |-> "type", style |-> ""],
    [regex |-> <<EXPORT, Opt({"const"}), Lit({"enum"}), Cap>>, type |-> "enum", style |-> ""],
    [regex |-> <<EXPORT, Opt({"declare"}), Lit({"namespace", "module"}), Cap>>,
        type |-> "namespace", style |-> ""],
    \* class methods
    [regex |-> <<Lit({WS}), Star(TsMods), Cap, GENERIC, PARAMS, Lit({"{"})>>,
        type |-> "method", style |-> ""],
    [regex |-> <<Lit({WS}), Star(TsMods), Cap, Lit({"="}), ASYNC, Lit({"()", "x"}), Lit({"=>"})>>,
        type |-> "method", style |-> "arrow"],
    \* Python
    [regex |-> <<ASYNC, Lit({"def"}), Cap>>, type |-> "function", style |-> ""],
    [regex |-> <<Lit({"class"}), Cap>>, type |-> "class", style |-> ""],
    \* Go
    [regex |-> <<Lit({"func"}), Cap>>, type |-> "function", style |-> ""],
    [regex |-> <<Lit({"func"}), PARAMS, Cap>>, type |-> "method", style |-> ""],
    [regex |-> <<Lit({"type"}), Cap, Lit({"struct", "interface"})>>, type |-> "type", style |-> ""],
    \* Java
    [regex |-> <<Star(JavaMods), Lit({"class"}), Cap>>, type |-> "class", style |-> ""],
    [regex |-> <<Star(JavaMods), Lit({"interface"}), Cap>>, type |-> "interface", style |-> ""],
    [regex |-> <<Lit(JavaMethodMods), Star(JavaMethodMods), GENERIC, Cap, PARAMS, Lit({"{"})>>,
        type |-> "method", style |-> ""],
    [regex |-> <<Star({"public", "private", "protected", WS}), Lit({"enum"}), Cap>>,
        type |-> "enum", style |-> ""],
    \* Rust
    [regex |-> <<Opt({"pub"}), ASYNC, Lit({"fn"}), Cap>>, type |-> "function", style |-> ""],
    [regex |-> <<Opt({"pub"}), Lit({"struct"}), Cap>>, type |-> "struct", style |-> ""],
    [regex |-> <<Opt({"pub"}), Lit({"enum"}), Cap>>, type |-> "enum", style |-> ""],
    [regex |-> <<Opt({"pub"}), Lit({"trait"}), Cap>>, type |-> "trait", style |-> ""],
    [regex |-> <<Lit({"impl"}), GENERIC, Cap>>, type |-> "impl", style |-> ""],
    \* C/C++
    [regex |-> <<Opt({"static"}), Opt({"inline"}), Opt({"const"}), Lit(Words), Star(Words),
                 Cap, PARAMS, Opt({"const"}), Lit({"{"})>>, type |-> "function", style |-> ""],
    [regex |-> <<Lit({"class", "struct"}), Cap>>, type |-> "class", style |-> ""],
    [regex |-> <<Lit({"typedef"}), Opt({"struct"}), Cap>>, type |-> "type", style |-> ""],
    \* PHP
    [regex |-> <<Star(PhpMods), Lit({"function"}), Cap>>, type |-> "function", style |-> ""],
    [regex |-> <<Opt({"abstract"}), Lit({"class"}), Cap>>, type |-> "class", style |-> ""],
    [regex |-> <<Lit({"interface"}), Cap>>, type |-> "interface", style |-> ""],
    [regex |-> <<Lit({"trait"}), Cap>>, type |-> "trait", style |-> ""],
    \* Ruby
    [regex |-> <<Opt({"def"}), Cap, Opt({"()"}), End>>, type |-> "method", style |-> ""],
    [regex |-> <<Lit({"class"}), Cap>>, type |-> "class", style |-> ""],
    [regex |-> <<Lit({"module"}), Cap>>, type |-> "module", style |-> ""]
>>


(***************************************************************************)
(* Syntax trees.  parser.parse(sourceCode) is tree-sitter; it is modelled  *)
(* by a recursive-descent recogniser of the declaration forms used in the  *)
(* modelled sources.  A tree is the sequence of its inner nodes in         *)
(* pre-order (the order in which every walk of the code visits them);      *)
(* parent is the index of the parent node, 0 for children of the root.     *)
(* start/end are startIndex/endIndex.  name is the text of the node's      *)
(* `name` field, value the type of a declarator's `value` field.           *)
(***************************************************************************)
Idents == {"add", "sub", "x"}

Tok(toks, p) == IF p >= 0 /\ p < Len(toks) THEN toks[p + 1] ELSE "<eof>"

Node(type, name, start, end, parent, value) ==
    [type |-> type, name |-> name, start |-> start, end |-> end,
     parent |-> parent, value |-> value]

\* offset of the "}" that closes the "{" at offset p, -1 if there is none before hi
RECURSIVE CloseBrace(_, _, _, _)
CloseBrace(toks, p, hi, depth) ==
    IF p >= hi THEN -1
    ELSE LET d == IF Tok(toks, p) = "{" THEN depth + 1
                  ELSE IF Tok(toks, p) = "}" THEN depth - 1 ELSE depth
         IN  IF d = 0 THEN p ELSE CloseBrace(toks, p + 1, hi, d)

\* offset of the end of the line that holds offset p
RECURSIVE EolOf(_, _, _)
EolOf(toks, p, hi) ==
    IF p >= hi \/ Tok(toks, p) = NL THEN p ELSE EolOf(toks, p + 1, hi)

\* the declaration form that starts at offset p, "" if none
DeclKind(toks, p, hi, inClass) ==
    LET t0 == Tok(toks, p)
        t1 == Tok(toks, p + 1)
        t2 == Tok(toks, p + 2)
        t3 == Tok(toks, p + 3)
        t4 == Tok(toks, p + 4)
        t5 == Tok(toks, p + 5)
    IN  IF inClass
        THEN IF t0 \in Idents /\ t1 = "()" /\ t2 = "{"
                   /\ CloseBrace(toks, p + 2, hi, 0) >= 0
             THEN "method_definition" ELSE ""
        ELSE IF t0 = "function" /\ t1 \in Idents /\ t2 = "()" /\ t3 = "{"
                   /\ CloseBrace(toks, p + 3, hi, 0) >= 0
             THEN "function_declaration"
        ELSE IF t0 = "class" /\ t1 \in Idents /\ t2 = "{"
                   /\ CloseBrace(toks, p + 2, hi, 0) >= 0
             THEN "class_declaration"
        ELSE IF t0 = "interface" /\ t1 \in Idents /\ t2 = "{"
                   /\ CloseBrace(toks, p + 2, hi, 0) >= 0
             THEN "interface_declaration"
        ELSE IF t0 = "type" /\ t1 \in Idents /\ t2 = "=" /\ t3 \in Idents
             THEN "type_alias_declaration"
        ELSE IF t0 = "const" /\ t1 \in Idents /\ t2 = "=" /\ t3 = "()" /\ t4 = "=>"
                   /\ t5 = "{" /\ CloseBrace(toks, p + 5, hi, 0) >= 0
             THEN "arrow_declaration"
        ELSE IF t0 = "const" /\ t1 \in Idents /\ t2 = "=" /\ t3 \in Idents
             THEN "data_declaration"
        ELSE IF t0 \in Idents /\ t1 = "()"
             THEN "expression_statement"
        ELSE ""

\* offset, from the start of a declaration of kind k, of the "{" of its body
BodyOffset(k) ==
    CASE k \in {"method_definition", "class_declaration", "interface_declaration"} -> 2
      [] k = "function_declaration" -> 3
      [] k = "arrow_declaration"    -> 5
      [] OTHER                      -> -1

\* endIndex of a declaration of kind k that starts at offset p, 0 for no kind
EndOfKind(k, toks, p, hi) ==
    IF BodyOffset(k) >= 0 THEN CloseBrace(toks, p + BodyOffset(k), hi, 0) + 1
    ELSE IF k \in {"type_alias_declaration", "data_declaration"} THEN p + 4
    ELSE IF k = "expression_statement" THEN p + 2
    ELSE 0

\* endIndex of the declaration that starts at offset p
DeclEnd(toks, p, hi, inClass) == EndOfKind(DeclKind(toks, p, hi, inClass), toks, p, hi)

\* the nodes a declaration of kind k over [p, e) adds at index me and below it,
\* its body excluded
DeclNodes(k, e, toks, p, parent, me) ==
    CASE k = "method_definition" ->
           <<Node(k, Tok(toks, p), p, e, parent, ""),
             Node("statement_block", "", p + 2, e, me, "")>>
      [] k = "function_declaration" ->
           <<Node(k, Tok(toks, p + 1), p, e, parent, ""),
             Node("statement_block", "", p + 3, e, me, "")>>
      [] k = "class_declaration" ->
           <<Node(k, Tok(toks, p + 1), p, e, parent, ""),
             Node("class_body", "", p + 2, e, me, "")>>
      [] k = "interface_declaration" ->
           <<Node(k, Tok(toks, p + 1), p, e, parent, ""),
             Node("interface_body", "", p + 2, e, me, "")>>
      [] k = "type_alias_declaration" ->
           <<Node(k, Tok(toks, p + 1), p, e, parent, "")>>
      [] k = "arrow_declaration" ->
           <<Node("lexical_declaration", "", p, e, parent, ""),
             Node("variable_declarator", Tok(toks, p + 1), p + 1, e, me, "arrow_function"),
             Node("arrow_function", "", p + 3, e, me + 1, ""),
             Node("statement_block", "", p + 5, e, me + 2, "")>>
      [] k = "data_declaration" ->
           <<Node("lexical_declaration", "", p, e, parent, ""),
             Node("variable_declarator", Tok(toks, p + 1), p + 1, e, me, "identifier")>>
      [] k = "expression_statement" ->
           <<Node(k, "", p, e, parent, ""),
             Node("call_expression", "", p, e, me, "")>>
      [] OTHER -> <<>>

RECURSIVE ParseRange(_, _, _, _, _, _)

\* a declaration of kind k over [p, e): its nodes, then those of its body
ParseKind(k, e, toks, p, parent, acc) ==
    IF k \in {"method_definition", "function_declaration", "class_declaration",
              "arrow_declaration"}
    THEN ParseRange(toks, p + BodyOffset(k) + 1, e - 1,
                    Len(acc) + Len(DeclNodes(k, e, toks, p, parent, Len(acc) + 1)),
                    k = "class_declaration",
                    acc \o DeclNodes(k, e, toks, p, parent, Len(acc) + 1))
    ELSE acc \o DeclNodes(k, e, toks, p, parent, Len(acc) + 1)

ParseDecl(toks, p, hi, parent, inClass, acc) ==
    ParseKind(DeclKind(toks, p, hi, inClass), DeclEnd(toks, p, hi, inClass),
              toks, p, parent, acc)

\* an export statement over [p, e): its node, then the exported declaration
ParseExport(e, toks, p, hi, parent, acc) ==
    ParseDecl(toks, p + 1, hi, Len(acc) + 1, FALSE,
              Append(acc, Node("export_statement", "", p, e, parent, "")))

\* the statement at offset p ends at e: the tree after it, acc if none starts here
ParseStatement(toks, p, hi, parent, inClass, acc) ==
    IF Tok(toks, p) = "//"
    THEN Append(acc, Node("comment", "", p, EolOf(toks, p, hi), parent, ""))
    ELSE IF Tok(toks, p) = "export" /\ ~inClass
            /\ DeclKind(toks, p + 1, hi, FALSE) \notin {"", "expression_statement"}
    THEN ParseExport(DeclEnd(toks, p + 1, hi, FALSE), toks, p, hi, parent, acc)
    ELSE ParseDecl(toks, p, hi, parent, inClass, acc)

\* the offset after the statement that starts at offset p
StatementEnd(toks, p, hi, inClass) ==
    IF Tok(toks, p) = "//" THEN EolOf(toks, p, hi)
    ELSE IF Tok(toks, p) = "export" /\ ~inClass
            /\ DeclKind(toks, p + 1, hi, FALSE) \notin {"", "expression_statement"}
    THEN DeclEnd(toks, p + 1, hi, FALSE)
    ELSE IF DeclKind(toks, p, hi, inClass) # "" THEN DeclEnd(toks, p, hi, inClass)
    ELSE p + 1

ParseRange(toks, p, hi, parent, inClass, acc) ==
    IF p >= hi THEN acc
    ELSE ParseRange(toks, StatementEnd(toks, p, hi, inClass), hi, parent, inClass,
                    ParseStatement(toks, p, hi, parent, inClass, acc))

\* this.parser.parse(sourceCode): the nodes below tree.rootNode in pre-order
ParseTree(toks) == ParseRange(toks, 0, Len(toks), 0, FALSE, <<>>)

StartRow(toks, n) == RowOf(toks, n.start)
EndRow(toks, n) == RowOf(toks, n.end - 1)

\* indices of the children of node i (0 = the root) in child order
ChildrenOf(tree, i) == {j \in 1..Len(tree) : tree[j].parent = i}

RECURSIVE IsAncestor(_, _, _)
IsAncestor(tree, a, j) ==
    IF j = 0 THEN FALSE
    ELSE tree[j].parent = a \/ IsAncestor(tree, a, tree[j].parent)

(***************************************************************************)
(* CodeAnalyzer: outline.                                                  *)
(* An outline item is a record; `fields` lists the keys the JavaScript     *)
(* object carries (a key of the record outside `fields` is absent there).  *)
(***************************************************************************)
NoItem == [type |-> "<null>"]

MaxSigLen == 120

\* _extractSignature: trimmed line without its trailing brace, cut at 120
_extractSignature(line) ==
    LET t   == Trim(line)
        sig == IF Len(t) > 0 /\ t[Len(t)] = "{" THEN SubSeq(t, 1, Len(t) - 1) ELSE t
    IN  IF Len(sig) > MaxSigLen
        THEN SubSeq(sig, 1, MaxSigLen - 3) \o <<"...">>
        ELSE sig

LineAt(lines, row) == IF row + 1 <= Len(lines) THEN lines[row + 1] ELSE <<>>

AstItem(type, name, line, endLine, sig, style, exported) ==
    [type |-> type, name |-> name, line |-> line, endLine |-> endLine,
     signature |-> sig, style |-> style, exported |-> exported, depth |-> 0,
     fields |-> {"type", "name", "line", "endLine", "signature"}
                \cup (IF style # "" THEN {"style"} ELSE {})
                \cup (IF exported THEN {"exported"} ELSE {})]

FunctionValueTypes == {"arrow_function", "function_expression", "function"}

\* findDeclarator: the first variable_declarator below node i, 0 if none
FindDeclarator(tree, i) ==
    LET ds == {j \in 1..Len(tree) :
                  tree[j].type = "variable_declarator" /\ IsAncestor(tree, i, j)}
    IN  IF ds = {} THEN 0 ELSE CHOOSE j \in ds : \A k \in ds : j <= k

\* the least element of a non-empty set of node indices: the first in pre-order
FirstOf(S) == CHOOSE i \in S : \A k \in S : i <= k

\* if (nameNode) outlineItem = {...}
NamedItem(type, node, startLine, endLine, sig) ==
    IF node.name # ""
    THEN AstItem(type, node.name, startLine, endLine, sig, "", FALSE)
    ELSE NoItem

\* case 'lexical_declaration' with d the result of findDeclarator(node), 0 for null
DeclaratorItem(tree, d, startLine, endLine, sig) ==
    IF d # 0 /\ tree[d].name # "" /\ tree[d].value \in FunctionValueTypes
    THEN AstItem("function", tree[d].name, startLine, endLine, sig, "arrow", FALSE)
    ELSE NoItem

\* the switch of _nodeToOutlineItem but for case 'export_statement'
PlainItemAt(tree, i, startLine, endLine, sig) ==
    CASE tree[i].type \in {"function_declaration", "function_definition"} ->
           NamedItem("function", tree[i], startLine, endLine, sig)
      [] tree[i].type \in {"lexical_declaration", "variable_declaration"} ->
           DeclaratorItem(tree, FindDeclarator(tree, i), startLine, endLine, sig)
      [] tree[i].type \in {"class_declaration", "class_definition", "class"} ->
           NamedItem("class", tree[i], startLine, endLine, sig)
      [] tree[i].type \in {"method_definition", "method_declaration"} ->
           NamedItem("method", tree[i], startLine, endLine, sig)
      [] tree[i].type = "interface_declaration" ->
           NamedItem("interface", tree[i], startLine, endLine, sig)
      [] tree[i].type = "type_alias_declaration" ->
           NamedItem("type", tree[i], startLine, endLine, sig)
      [] tree[i].type = "enum_declaration" ->
           NamedItem("enum", tree[i], startLine, endLine, sig)
      [] tree[i].type \in {"module_declaration", "namespace_declaration",
                           "ambient_declaration"} ->
           NamedItem("namespace", tree[i], startLine, endLine, sig)
      [] OTHER -> NoItem

\* _nodeToOutlineItem for every node type but export_statement
PlainOutlineItem(tree, toks, lines, i) ==
    PlainItemAt(tree, i, StartRow(toks, tree[i]) + 1, EndRow(toks, tree[i]) + 1,
                _extractSignature(LineAt(lines, StartRow(toks, tree[i]))))

\* child.type.includes('declaration')
IsDeclarationType(type) ==
    type \in {"function_declaration", "lexical_declaration", "variable_declaration",
              "class_declaration", "method_declaration", "interface_declaration",
              "type_alias_declaration", "enum_declaration", "module_declaration",
              "namespace_declaration", "ambient_declaration"}

\* export const name = () => ...: the child c is a lexical declaration with a
\* function-valued declarator among its children
ArrowDeclarators(tree, c) ==
    {d \in ChildrenOf(tree, c) :
        /\ tree[c].type \in {"lexical_declaration", "variable_declaration"}
        /\ tree[d].type = "variable_declarator"
        /\ tree[d].name # ""
        /\ tree[d].value \in {"arrow_function", "function_expression"}}

ExportedArrow(tree, c, startLine, endLine, sig) ==
    IF ArrowDeclarators(tree, c) # {}
    THEN AstItem("function", tree[FirstOf(ArrowDeclarators(tree, c))].name,
                 startLine, endLine, sig, "arrow", TRUE)
    ELSE NoItem

\* const item = this._nodeToOutlineItem(child, lines); if (item) {...}
ExportedDecl(item, childType, startLine) ==
    IF IsDeclarationType(childType) /\ item # NoItem
    THEN [item EXCEPT !.exported = TRUE, !.line = startLine,
                      !.fields = @ \cup {"exported"}]
    ELSE NoItem

OrElse(a, b) == IF a # NoItem THEN a ELSE b

\* what one child c of an export statement gives the loop over node.children
ExportChildItem(tree, toks, lines, c, startLine, endLine, sig) ==
    OrElse(ExportedArrow(tree, c, startLine, endLine, sig),
           ExportedDecl(PlainOutlineItem(tree, toks, lines, c), tree[c].type, startLine))

\* the children of node i that give an item
ExportingChildren(tree, toks, lines, i, startLine, endLine, sig) ==
    {c \in ChildrenOf(tree, i) :
        ExportChildItem(tree, toks, lines, c, startLine, endLine, sig) # NoItem}

ExportItemAt(cs, tree, toks, lines, startLine, endLine, sig) ==
    IF cs = {} THEN NoItem
    ELSE ExportChildItem(tree, toks, lines, FirstOf(cs), startLine, endLine, sig)

ExportItemOn(tree, toks, lines, i, startLine, endLine, sig) ==
    ExportItemAt(ExportingChildren(tree, toks, lines, i, startLine, endLine, sig),
                 tree, toks, lines, startLine, endLine, sig)

\* case 'export_statement': the item of the first child that gives one,
\* flagged exported and moved to the export statement's start line
ExportOutlineItem(tree, toks, lines, i) ==
    ExportItemOn(tree, toks, lines, i,
                 StartRow(toks, tree[i]) + 1, EndRow(toks, tree[i]) + 1,
                 _extractSignature(LineAt(lines, StartRow(toks, tree[i]))))

_nodeToOutlineItem(tree, toks, lines, i) ==
    IF tree[i].type = "export_statement"
    THEN ExportOutlineItem(tree, toks, lines, i)
    ELSE PlainOutlineItem(tree, toks, lines, i)

\* depth handed down by _collectOutlineFromAST: one more per ancestor with an item
DepthOf(tree, toks, lines, i) ==
    Cardinality({a \in 1..Len(tree) :
        IsAncestor(tree, a, i) /\ _nodeToOutlineItem(tree, toks, lines, a) # NoItem})

\* a sort with the comparison turned round: (a, b) => b.line - a.line
RECURSIVE SortByLineDescending(_)
SortByLineDescending(items) ==
    IF Len(items) <= 1 THEN items
    ELSE LET rest == SortByLineDescending(SubSeq(items, 1, Len(items) - 1))
             last == items[Len(items)]
             k    == Cardinality({j \in 1..Len(rest) : rest[j].line >= last.line})
         IN  SubSeq(rest, 1, k) \o <<last>> \o SubSeq(rest, k + 1, Len(rest))

\* outline.sort((a, b) => a.line - b.line): stable insertion by line
RECURSIVE SortByLine(_)
SortByLine(items) ==
    IF Len(items) <= 1 THEN items
    ELSE LET rest == SortByLine(SubSeq(items, 1, Len(items) - 1))
             last == items[Len(items)]
             k    == Cardinality({j \in 1..Len(rest) : rest[j].line <= last.line})
         IN  SubSeq(rest, 1, k) \o <<last>> \o SubSeq(rest, k + 1, Len(rest))

\* if (item) outline.push({ ...item, depth })
Pushed(item, depth) ==
    IF item # NoItem
    THEN <<[item EXCEPT !.depth = depth, !.fields = @ \cup {"depth"}]>>
    ELSE <<>>

\* _collectOutlineFromAST over the whole tree, pre-order
RECURSIVE CollectFrom(_, _, _, _)
CollectFrom(tree, toks, lines, i) ==
    IF i > Len(tree) THEN <<>>
    ELSE Pushed(_nodeToOutlineItem(tree, toks, lines, i), DepthOf(tree, toks, lines, i))
         \o CollectFrom(tree, toks, lines, i + 1)

_collectOutlineFromAST(tree, toks, lines) == CollectFrom(tree, toks, lines, 1)

\* a table that excludes no name
NoExcludedNames == {}

ExcludedNames ==
    {"if", "for", "while", "switch", "return", "throw", "new", "try", "catch"}

CommentStarts == {"//", "#", "/*", "*", "\"\"\"", "'''"}

\* the body of lines.forEach in _getOutlineWithRegex: the items of one line
RECURSIVE RegexItemOfLine(_, _, _)
RegexItemOfLine(line, lineNum, k) ==
    IF k > Len(OutlinePatterns) THEN <<>>
    ELSE LET m == Match(OutlinePatterns[k].regex, line)
         IN  IF m # <<>> /\ m[1] # "" /\ m[1] \notin ExcludedNames
             THEN <<[type |-> OutlinePatterns[k].type, name |-> m[1], line |-> lineNum,
                     signature |-> _extractSignature(line),
                     style |-> OutlinePatterns[k].style,
                     fields |-> {"type", "name", "line", "signature", "style"}]>>
             ELSE RegexItemOfLine(line, lineNum, k + 1)

RECURSIVE RegexOutlineFrom(_, _)
RegexOutlineFrom(lines, idx) ==
    IF idx >= Len(lines) THEN <<>>
    ELSE LET line    == lines[idx + 1]
             trimmed == Trim(line)
         IN  (IF Len(trimmed) = 0 \/ trimmed[1] \in CommentStarts
              THEN <<>>
              ELSE RegexItemOfLine(line, idx + 1, 1))
             \o RegexOutlineFrom(lines, idx + 1)

_getOutlineWithRegex(toks) == RegexOutlineFrom(SplitLines(toks), 0)

(***************************************************************************)
(* An analyzer is [useAST, crash]: useAST as set by the constructor,       *)
(* crash = TRUE when this.parser.parse throws on the input.  Results of    *)
(* the public operations are [ok |-> TRUE, val |-> v] for a return and     *)
(* [ok |-> FALSE, err |-> e] for a throw.                                  *)
(***************************************************************************)
Ret(v) == [ok |-> TRUE, val |-> v]
Throw(e) == [ok |-> FALSE, err |-> e]

\* getOutline without the catch around the AST step
getOutlineUncaught(an, toks) ==
    IF an.useAST
    THEN IF an.crash
         THEN Throw(<<"parse">>)
         ELSE Ret(SortByLine(_collectOutlineFromAST(ParseTree(toks), toks, SplitLines(toks))))
    ELSE Throw(<<"Parser not available">>)

getOutline(an, toks) ==
    IF an.useAST
    THEN IF an.crash
         THEN Ret(_getOutlineWithRegex(toks))
         ELSE Ret(SortByLine(_collectOutlineFromAST(ParseTree(toks), toks, SplitLines(toks))))
    ELSE Ret(_getOutlineWithRegex(toks))

(***************************************************************************)
(* CodeAnalyzer: extractElement.                                           *)
(***************************************************************************)
\* typeMatches of _findElementInAST
TypeMatchesExtract(type, itemType) ==
    \/ type = "function" /\ itemType \in {"function", "method"}
    \/ type = "class" /\ itemType = "class"
    \/ type = "interface" /\ itemType = "interface"
    \/ type = "type" /\ itemType \in {"type", "interface"}
    \/ type = "variable" /\ itemType = "variable"
    \/ type = itemType

\* a kind test by equality alone
TypeMatchesStrict(type, itemType) == type = itemType

\* typeMatches of _findElementNode
TypeMatchesReplace(type, itemType) ==
    \/ type = "function" /\ itemType \in {"function", "method"}
    \/ type = "class" /\ itemType = "class"
    \/ type = "interface" /\ itemType = "interface"
    \/ type = "type" /\ itemType \in {"type", "interface"}
    \/ type = itemType

NotFound(targetName, type) == [message |-> <<"not found", targetName, type>>]

IsMarker(r) == DOMAIN r = {"message"}

ElementResult(type, name, lines, startLine, endLine) ==
    [type |-> type, name |-> name,
     location |-> <<startLine + 1, endLine + 1>>,
     startLine |-> startLine + 1, endLine |-> endLine + 1,
     content |-> JoinLines(SliceLines(lines, startLine, endLine + 1))]

RECURSIVE FindElementFrom(_, _, _, _, _, _, _, _)

\* the visit of one node by _findElementInAST: item is its outline item, sr and
\* er its start and end row, seen is seenLocations
FindElementAt(item, sr, er, tree, toks, lines, targetName, type, contextLines, i, seen) ==
    IF /\ item # NoItem
       /\ item.name = targetName
       /\ TypeMatchesExtract(type, item.type)
       /\ <<sr, er>> \notin seen
    THEN <<ElementResult(item.type, targetName, lines,
                         Max(0, sr - contextLines),
                         Min(Len(lines) - 1, er + contextLines))>>
         \o FindElementFrom(tree, toks, lines, targetName, type, contextLines,
                            i + 1, seen \cup {<<sr, er>>})
    ELSE FindElementFrom(tree, toks, lines, targetName, type, contextLines, i + 1, seen)

\* _findElementInAST from node i on, pre-order
FindElementFrom(tree, toks, lines, targetName, type, contextLines, i, seen) ==
    IF i > Len(tree) THEN <<>>
    ELSE FindElementAt(_nodeToOutlineItem(tree, toks, lines, i),
                       StartRow(toks, tree[i]), EndRow(toks, tree[i]),
                       tree, toks, lines, targetName, type, contextLines, i, seen)

_findElementInAST(tree, toks, lines, targetName, type, contextLines) ==
    FindElementFrom(tree, toks, lines, targetName, type, contextLines, 1, {})

\* the pattern list _extractElementWithRegex builds for a type; the default
\* entry is the unanchored \bname\b
ExtractPatterns(type, name) ==
    CASE type = "function" ->
           << <<EXPORT, ASYNC, Lit({"function"}), Lit({name}), Lit({"()", "<>"})>>,
              <<EXPORT, DECLKW, Lit({name}), Lit({"="}), ASYNC, Lit({"()", "x"}), Lit({"=>"})>>,
              <<EXPORT, DECLKW, Lit({name}), Lit({"="}), ASYNC, Lit({"function"})>>,
              <<ASYNC, Lit({"def"}), Lit({name}), Lit({"()"})>>,
              <<Lit({"func"}), Lit({name}), Lit({"()"})>> >>
      [] type = "class" ->
           << <<EXPORT, Opt({"abstract"}), Lit({"class"}), Lit({name})>>,
              <<Lit({"class"}), Lit({name})>> >>
      [] type = "interface" ->
           << <<EXPORT, Lit({"interface"}), Lit({name})>> >>
      [] type = "type" ->
           << <<EXPORT, Lit({"type"}), Lit({name}), GENERIC, Lit({"="})>>,
              <<Lit({"type"}), Lit({name}), Lit({"struct", "interface"})>> >>
      [] OTHER -> <<>>

ExtractLineMatches(type, name, line) ==
    IF type \in {"function", "class", "interface", "type"}
    THEN \E k \in 1..Len(ExtractPatterns(type, name)) :
             Test(ExtractPatterns(type, name)[k], line)
    ELSE ContainsWord(line, name)

\* the extra rows _extractElementWithRegex takes after the matching line
BodyLines == 20

RECURSIVE RegexExtractFrom(_, _, _, _, _)
RegexExtractFrom(lines, targetName, type, contextLines, idx) ==
    IF idx >= Len(lines) THEN <<>>
    ELSE (IF ExtractLineMatches(type, targetName, lines[idx + 1])
          THEN <<ElementResult(type, targetName, lines,
                               Max(0, idx - contextLines),
                               Min(Len(lines) - 1, idx + contextLines + BodyLines))>>
          ELSE <<>>)
         \o RegexExtractFrom(lines, targetName, type, contextLines, idx + 1)

\* the results as they are, an empty list included
OrEmpty(results, targetName, type) == results

\* if (results.length === 0) return [{ message }]; return results
OrNotFound(results, targetName, type) ==
    IF Len(results) = 0 THEN <<NotFound(targetName, type)>> ELSE results

_extractElementWithRegex(toks, targetName, type, contextLines) ==
    OrNotFound(RegexExtractFrom(SplitLines(toks), targetName, type, contextLines, 0),
               targetName, type)

extractElement(an, toks, targetName, type, contextLines) ==
    IF an.useAST /\ ~an.crash
    THEN Ret(OrNotFound(_findElementInAST(ParseTree(toks), toks, SplitLines(toks),
                                          targetName, type, contextLines),
                        targetName, type))
    ELSE Ret(_extractElementWithRegex(toks, targetName, type, contextLines))

(***************************************************************************)
(* CodeAnalyzer: replaceElement.                                           *)
(***************************************************************************)
\* _findElementNode: index of the first matching node in pre-order, 0 if none
ItemMatches(item, targetName, type) ==
    /\ item # NoItem
    /\ item.name = targetName
    /\ TypeMatchesReplace(type, item.type)

\* the last element in place of the first
LastOrZero(S) == IF S = {} THEN 0 ELSE CHOOSE i \in S : \A k \in S : k <= i

FirstOrZero(S) == IF S = {} THEN 0 ELSE FirstOf(S)

_findElementNode(tree, toks, targetName, type) ==
    FirstOrZero({i \in 1..Len(tree) :
                    ItemMatches(_nodeToOutlineItem(tree, toks, <<<<>>>>, i),
                                targetName, type)})

\* startPattern of _replaceElementWithRegex, one entry per alternative
ReplacePatterns(type, name) ==
    CASE type = "function" ->
           << <<EXPORT, ASYNC, Lit({"function"}), Lit({name})>>,
              <<EXPORT, ASYNC, DECLKW, Lit({name}), Lit({"="})>> >>
      [] type = "class" ->
           << <<EXPORT, Opt({"abstract"}), Lit({"class"}), Lit({name})>> >>
      [] type = "interface" ->
           << <<EXPORT, Lit({"interface"}), Lit({name})>> >>
      [] type = "type" ->
           << <<EXPORT, Lit({"type"}), Lit({name})>> >>
      [] OTHER -> <<>>

ReplaceLineMatches(type, name, line) ==
    \E k \in 1..Len(ReplacePatterns(type, name)) :
        Test(ReplacePatterns(type, name)[k], line)

\* braceCount after the characters of one line
BraceDelta(line) ==
    Cardinality({i \in 1..Len(line) : line[i] = "{"})
    - Cardinality({i \in 1..Len(line) : line[i] = "}"})

HasOpenBrace(line) == \E i \in 1..Len(line) : line[i] = "{"

\* the brace-matching loop: row where the count is back at zero, else startIdx
RECURSIVE FindEndIdx(_, _, _, _, _)
FindEndIdx(lines, startIdx, i, braceCount, foundBrace) ==
    IF i >= Len(lines) THEN startIdx
    ELSE LET c == braceCount + BraceDelta(lines[i + 1])
             f == foundBrace \/ HasOpenBrace(lines[i + 1])
         IN  IF f /\ c = 0 THEN i
             ELSE FindEndIdx(lines, startIdx, i + 1, c, f)

\* lines.findIndex(line => startPattern.test(line)), 0-based, -1 if none
FindStartIdx(lines, targetName, type) ==
    FirstOrZero({i \in 1..Len(lines) : ReplaceLineMatches(type, targetName, lines[i])}) - 1

\* before + (before ? '\n' : '') + newContent + (after ? '\n' : '') + after
Spliced(before, newContent, after) ==
    before \o (IF before # <<>> THEN <<NL>> ELSE <<>>) \o newContent
    \o (IF after # <<>> THEN <<NL>> ELSE <<>>) \o after

\* the replacement of rows startIdx..endIdx
ReplaceRows(lines, startIdx, endIdx, newContent) ==
    Spliced(JoinLines(SliceLines(lines, 0, startIdx)), newContent,
            JoinLines(SliceLines(lines, endIdx + 1, Len(lines))))

RegexReplaceAt(lines, startIdx, targetName, type, newContent) ==
    IF type \notin {"function", "class", "interface", "type"}
    THEN Throw(<<"Unsupported type for replacement", type>>)
    ELSE IF startIdx = -1
    THEN Throw(<<"not found", targetName, type>>)
    ELSE Ret(ReplaceRows(lines, startIdx, FindEndIdx(lines, startIdx, startIdx, 0, FALSE),
                         newContent))

RegexReplaceIn(lines, targetName, type, newContent) ==
    RegexReplaceAt(lines, FindStartIdx(lines, targetName, type), targetName, type,
                   newContent)

_replaceElementWithRegex(toks, targetName, type, newContent) ==
    RegexReplaceIn(SplitLines(toks), targetName, type, newContent)

\* replaceNodeText with the end offset taken one token short
ReplaceNodeShort(an, tree, node, toks, targetName, type, newContent) ==
    IF an.useAST /\ ~an.crash /\ node # 0
    THEN Ret(Slice(toks, 0, tree[node].start) \o newContent
             \o SliceFrom(toks, tree[node].end - 1))
    ELSE _replaceElementWithRegex(toks, targetName, type, newContent)

\* replaceNodeText of the node, or the regex fallback when no node was found
ReplaceNode(an, tree, node, toks, targetName, type, newContent) ==
    IF an.useAST /\ ~an.crash /\ node # 0
    THEN Ret(Slice(toks, 0, tree[node].start) \o newContent
             \o SliceFrom(toks, tree[node].end))
    ELSE _replaceElementWithRegex(toks, targetName, type, newContent)

ReplaceInTree(an, tree, toks, targetName, type, newContent) ==
    ReplaceNode(an, tree, _findElementNode(tree, toks, targetName, type), toks,
                targetName, type, newContent)

replaceElement(an, toks, targetName, type, newContent) ==
    ReplaceInTree(an, ParseTree(toks), toks, targetName, type, newContent)

(***************************************************************************)
(* SearchEngine: classification of search hits.                            *)
(***************************************************************************)
QUOTE == "'"

StartsWith(line, S) == Len(line) > 0 /\ line[1] \in S

\* _isComment
_isComment(line, language) ==
    LET trimmed == Trim(line)
    IN  IF language \in {"javascript", "typescript", "java", "go", "cpp", "c"}
        THEN StartsWith(trimmed, {"//", "/*", "*"})
        ELSE IF language = "python"
        THEN StartsWith(trimmed, {"#", "\"\"\"", "'''"})
        ELSE FALSE

\* _isImportLine
_isImportLine(line, language) ==
    LET trimmed == Trim(line)
    IN  IF language \in {"javascript", "typescript"}
        THEN StartsWith(trimmed, {"import"}) \/ ContainsWord(trimmed, "require(")
        ELSE IF language = "python"
        THEN StartsWith(trimmed, {"import", "from"})
        ELSE IF language \in {"go", "java"}
        THEN StartsWith(trimmed, {"import"})
        ELSE FALSE

\* line.replace(/(['"`]).*?\1/g, ''): every quoted span is removed
RECURSIVE StripStrings(_)
StripStrings(line) ==
    IF \A i \in 1..Len(line) : line[i] # QUOTE THEN line
    ELSE LET a  == CHOOSE i \in 1..Len(line) :
                       line[i] = QUOTE /\ \A j \in 1..(i - 1) : line[j] # QUOTE
             bs == {j \in (a + 1)..Len(line) : line[j] = QUOTE}
         IN  IF bs = {} THEN line
             ELSE LET b == CHOOSE j \in bs : \A k \in bs : j <= k
                  IN  SubSeq(line, 1, a - 1) \o StripStrings(SubSeq(line, b + 1, Len(line)))

\* _isInStringLiteral
_isInStringLiteral(line, pattern) == ~ContainsWord(StripStrings(line), pattern)

\* definitionPatterns of _simpleClassify, tested on the trimmed line
DefinitionPatterns == <<
    <<EXPORT, ASYNC, Lit({"function"})>>,
    <<EXPORT, DECLKW, Cap, Lit({"="}), ASYNC, Lit({"()"})>>,
    <<EXPORT, DECLKW, Cap, Lit({"="}), ASYNC, Lit({"function"})>>,
    <<EXPORT, Lit({"class"})>>,
    <<Lit({"def"}), Cap, Lit({"()"})>>,
    <<Lit({"func"})>>,
    <<Opt({"public", "private", "protected"}), Opt({"static"}), Cap, Cap, Lit({"()"})>>
>>

_simpleClassify(lineContent) ==
    IF \E k \in 1..Len(DefinitionPatterns) : Test(DefinitionPatterns[k], Trim(lineContent))
    THEN "definition"
    ELSE "usage"

DefinitionTypes ==
    {"function_declaration", "function_definition", "method_definition",
     "class_declaration", "class_definition", "variable_declarator",
     "assignment_expression", "arrow_function"}

\* 0-based offset of the first token of a row, Len(toks) past the last row
RowStart(toks, row) ==
    IF row = 0 THEN 0
    ELSE LET ns == {i \in 1..Len(toks) :
                       toks[i] = NL /\ Cardinality({j \in 1..i : toks[j] = NL}) = row}
         IN  IF ns = {} THEN Len(toks) ELSE CHOOSE i \in ns : TRUE

\* index of the deepest inner node that spans offset off, 0 for the root
DeepestAt(tree, off) ==
    LET cs == {i \in 1..Len(tree) : tree[i].start <= off /\ off < tree[i].end}
    IN  IF cs = {} THEN 0 ELSE CHOOSE i \in cs : \A k \in cs : k <= i

TypeOfNode(tree, i) == IF i = 0 THEN "program" ELSE tree[i].type

\* tree.rootNode.descendantForPosition({row, column: 0}) as [type, parentType]:
\* the token leaf at column 0, or the inner node around leading white space
DescendantAtColumn0(tree, toks, row) ==
    LET off  == RowStart(toks, row)
        tok  == Tok(toks, off)
        deep == DeepestAt(tree, off)
    IN  IF tok \in {WS, NL, "<eof>"} \/ TypeOfNode(tree, deep) = "comment"
        THEN [type |-> TypeOfNode(tree, deep),
              parentType |-> IF deep = 0 THEN "" ELSE TypeOfNode(tree, tree[deep].parent)]
        ELSE [type |-> IF tok \in Idents THEN "identifier" ELSE tok,
              parentType |-> TypeOfNode(tree, deep)]

\* _classifyLine with the string test moved before the import test
_classifyLineStringFirst(toks, lineNum, lineContent, pattern, tree, language) ==
    LET trimmed == Trim(lineContent)
        node    == DescendantAtColumn0(tree, toks, lineNum - 1)
    IN  IF _isComment(trimmed, language) THEN "comment"
        ELSE IF _isInStringLiteral(trimmed, pattern) THEN "string"
        ELSE IF _isImportLine(trimmed, language) THEN "import"
        ELSE IF node.type \in DefinitionTypes \/ node.parentType \in DefinitionTypes
        THEN "definition"
        ELSE IF node.type = "call_expression"
                \/ node.parentType \in {"call_expression", "arguments"}
        THEN "usage"
        ELSE _simpleClassify(lineContent)

\* _classifyLine
_classifyLine(toks, lineNum, lineContent, pattern, tree, language) ==
    LET trimmed == Trim(lineContent)
        node    == DescendantAtColumn0(tree, toks, lineNum - 1)
    IN  IF _isComment(trimmed, language) THEN "comment"
        ELSE IF _isImportLine(trimmed, language) THEN "import"
        ELSE IF _isInStringLiteral(trimmed, pattern) THEN "string"
        ELSE IF node.type \in DefinitionTypes \/ node.parentType \in DefinitionTypes
        THEN "definition"
        ELSE IF node.type = "call_expression"
                \/ node.parentType \in {"call_expression", "arguments"}
        THEN "usage"
        ELSE _simpleClassify(lineContent)

\* EXTENSION_TO_LANGUAGE[ext] of the search engine, "" for undefined
ExtensionToLanguage(ext) ==
    CASE ext \in {".js", ".jsx"} -> "javascript"
      [] ext \in {".ts", ".tsx"} -> "typescript"
      [] ext = ".py" -> "python"
      [] ext = ".go" -> "go"
      [] ext = ".java" -> "java"
      [] OTHER -> ""

\* case folding of the words that occur in the modelled sources
Lower(tok) ==
    CASE tok = "Add" -> "add"
      [] tok = "Sub" -> "sub"
      [] OTHER -> tok

\* rg -i -F pattern: the line holds the pattern in some spelling of its case
MatchesIgnoringCase(line, pattern) ==
    \E i \in 1..Len(line) : Lower(line[i]) = Lower(pattern)

\* the raw hits ripgrep reports for a pattern: the lines that contain it
RawHits(toks, pattern) ==
    LET lines == SplitLines(toks)
        F[i \in 0..Len(lines)] ==
            IF i = 0 THEN <<>>
            ELSE IF MatchesIgnoringCase(lines[i], pattern)
                 THEN Append(F[i - 1], [line |-> i, content |-> lines[i]])
                 ELSE F[i - 1]
    IN  F[Len(lines)]

\* _classifyResults for the hits of one file
_classifyResults(an, ext, toks, results, pattern) ==
    LET language == ExtensionToLanguage(ext)
    IN  IF language = ""
        THEN [i \in 1..Len(results) |->
                 [line |-> results[i].line, content |-> results[i].content,
                  classification |-> "unknown", language |-> ""]]
        ELSE IF an.useAST /\ ~an.crash
        THEN [i \in 1..Len(results) |->
                 [line |-> results[i].line, content |-> results[i].content,
                  classification |->
                      _classifyLine(toks, results[i].line, results[i].content,
                                    pattern, ParseTree(toks), language),
                  language |-> language]]
        ELSE [i \in 1..Len(results) |->
                 [line |-> results[i].line, content |-> results[i].content,
                  classification |-> _simpleClassify(results[i].content),
                  language |-> language]]

(***************************************************************************)
(* server.js: language detection, backups, the replace tool handlers.      *)
(***************************************************************************)
\* SENSITIVE_PATTERNS, each as the set of the modelled file names it matches
SENSITIVE_PATTERNS == <<
    {".env"},             \* /(^|\/)\.env/i
    {"app_secret"},       \* /_secret/i
    {"service_key.json"}, \* /_key\.json/i
    {"credentials"},      \* /credentials/i
    {"password"},         \* /password/i
    {"id_rsa"},           \* /id_rsa/i
    {"cert.pem"}          \* /\.pem$/i
>>

\* isSensitivePath(filePath)
isSensitivePath(filePath) ==
    \E k \in 1..Len(SENSITIVE_PATTERNS) :
        \E i \in 1..Len(filePath) : filePath[i] \in SENSITIVE_PATTERNS[k]

\* detectLanguage(filePath), "" for null
detectLanguage(ext) ==
    CASE ext \in {".js", ".jsx", ".mjs", ".cjs"} -> "javascript"
      [] ext \in {".ts", ".tsx"} -> "typescript"
      [] ext = ".py" -> "python"
      [] ext = ".go" -> "go"
      [] ext = ".java" -> "java"
      [] OTHER -> ""

\* getLanguageModule(language) is non-null: the grammar is one of the lazily
\* loaded modules and its require() succeeded
HasLanguageModule(language, grammar) ==
    /\ language \in {"typescript", "ts", "javascript", "js", "jsx", "python", "py",
                     "go", "golang", "java"}
    /\ grammar # "missing"

\* new CodeAnalyzer(language)
NewAnalyzer(language, grammar) ==
    [useAST |-> HasLanguageModule(language, grammar), crash |-> grammar = "crash"]

\* the timestamp in the name of the newest backup, 0 when there is none
LastTime(bk) == IF bk = <<>> THEN 0 ELSE bk[Len(bk)].time

\* the values Date.now() can return after the backups bk were written: the
\* millisecond of the newest one again, or a later one
Clock(bk) == IF bk = <<>> THEN {1} ELSE {LastTime(bk), LastTime(bk) + 1}

\* backupFile(filePath) of an existing file with BACKUP enabled: the content
\* is copied to .mcp-backups/<basename>.<Date.now()>.  bk lists the copies
\* made so far; a copy with the name of an earlier one has replaced it on disk
backupFile(bk, content, now) == Append(bk, [time |-> now, content |-> content])

\* the copy that is on disk under the name with timestamp t: the last one made
OnDisk(bk, t) == CHOOSE i \in 1..Len(bk) : bk[i].time = t /\ \A j \in (i + 1)..Len(bk) : bk[j].time # t

\* the end of the ast_replace_element handler: result is the outcome of
\* analyzer.replaceElement, bk1 the backups after backupFile
AstReplaceElementDone(result, content, bk1, language, element_name, element_type) ==
    IF language = ""
    THEN [file |-> content, backups |-> bk1,
          ret |-> Throw(<<"TypeError", "toLowerCase of null">>)]
    ELSE IF ~result.ok
    THEN [file |-> content, backups |-> bk1, ret |-> result]
    ELSE [file |-> result.val, backups |-> bk1,
          ret |-> Ret([status |-> "success", action |-> "ast_replaced",
                       element |-> element_name, type |-> element_type,
                       backup |-> LastTime(bk1)])]

\* the handler of the ast_replace_element tool, for an existing file:
\* [file, backups, ret] after the call
AstReplaceElementHandler(content, bk, now, fileExt, grammar, element_name, element_type, new_content) ==
    AstReplaceElementDone(
        replaceElement(NewAnalyzer(detectLanguage(fileExt), grammar), content,
                       element_name, element_type, new_content),
        content, backupFile(bk, content, now), detectLanguage(fileExt),
        element_name, element_type)

\* the end of case 'ast_replace_element' of batch_smart_apply
BatchAstReplaceElementDone(result, content, bk1, language) ==
    IF language = ""
    THEN [file |-> content, backups |-> bk1, status |-> "done"]
    ELSE IF ~result.ok
    THEN [file |-> content, backups |-> bk1, status |-> "error"]
    ELSE [file |-> result.val, backups |-> bk1, status |-> "done"]

\* case 'ast_replace_element' of batch_smart_apply for one operation on an
\* existing file: [file, backups, status] after the operation
BatchAstReplaceElement(content, bk, now, fileExt, grammar, op) ==
    BatchAstReplaceElementDone(
        replaceElement(NewAnalyzer(detectLanguage(fileExt), grammar), content,
                       op.element_name, op.type, op.content),
        content, backupFile(bk, content, now), detectLanguage(fileExt))

RECURSIVE BatchLoop(_, _, _, _, _, _, _, _, _)

\* the loop goes on after an operation that left s = [file, backups, status]
BatchAfter(s, times, fileExt, grammar, ops, k, results, pushed) ==
    BatchLoop(s.file, s.backups, times, fileExt, grammar, ops, k + 1,
              Append(results, [type |-> "ast_replace_element", status |-> s.status]),
              Append(pushed, times[k]))

\* the loop of batch_smart_apply over its operations; times[k] is the value
\* of Date.now() while operation k runs, pushed the list `backups`
BatchLoop(content, bk, times, fileExt, grammar, ops, k, results, pushed) ==
    IF k > Len(ops)
    THEN [file |-> content, backups |-> bk, results |-> results, pushed |-> pushed]
    ELSE IF ~ops[k].exists
    THEN BatchLoop(content, bk, times, fileExt, grammar, ops, k + 1,
                   Append(results, [type |-> "ast_replace_element", status |-> "done"]),
                   pushed)
    ELSE BatchAfter(BatchAstReplaceElement(content, bk, times[k], fileExt, grammar, ops[k]),
                    times, fileExt, grammar, ops, k, results, pushed)

\* fs.readFileSync(backupPath): the content of the backup named by timestamp t
ContentAt(bk, t) == bk[OnDisk(bk, t)].content

\* `// Actually restore` of the restore_backup handler: bk1 is the backups
\* after backupFile(filePath), sel the timestamp of the backup restored from
RestoreFrom(bk1, sel, now) ==
    [file |-> ContentAt(bk1, sel), backups |-> bk1,
     ret |-> Ret([status |-> "restored", restored_from |-> sel,
                  current_state_backed_up_to |-> now])]

\* the handler of the restore_backup tool with a backup to restore from
RestoreBackupHandler(content, bk, now, sel, confirm) ==
    IF ~confirm
    THEN [file |-> content, backups |-> bk,
          ret |-> Ret([status |-> "preview", restore_from |-> sel])]
    ELSE RestoreFrom(backupFile(bk, content, now), sel, now)

\* the handler of the get_file_outline tool, for an existing file
GetFileOutlineHandler(content, fileExt, grammar) ==
    Ret([language |-> IF detectLanguage(fileExt) = "" THEN "unknown"
                      ELSE detectLanguage(fileExt),
         outline |-> getOutline(NewAnalyzer(IF detectLanguage(fileExt) = "" THEN "unknown"
                                            ELSE detectLanguage(fileExt), grammar),
                                content).val])

(***************************************************************************)
(* Inputs.                                                                 *)
(***************************************************************************)
MaxChunks == 2
MaxContext == 1
MaxBackups == 2
MaxBatchOps == 2

FnAdd == <<"function", "add", "()", "{", "}">>
FnSub == <<"function", "sub", "()", "{", "}">>
ExportFnAdd == <<"export">> \o FnAdd
TwoFns == FnAdd \o FnSub
ClassX == <<"class", "x", "{", NL, WS, "add", "()", "{", "}", NL, "}">>
ArrowSub == <<"const", "sub", "=", "()", "=>", "{", "}">>
CommentAdd == <<"//", "add", "()">>
CallAdd == <<"add", "()">>
Blank == <<>>

Chunks == {FnAdd, FnSub, ExportFnAdd, TwoFns, ClassX, ArrowSub, CommentAdd, CallAdd, Blank}

RECURSIVE SourcesOf(_)
SourcesOf(n) ==
    IF n = 1 THEN Chunks
    ELSE SourcesOf(n - 1)
         \cup {s \o <<NL>> \o c : s \in SourcesOf(n - 1), c \in Chunks}

Sources == SourcesOf(MaxChunks)

ToolSources ==
    {FnAdd \o <<NL>> \o FnSub, Blank \o <<NL>> \o FnAdd, ClassX, ExportFnAdd}

\* sources with one declaration of every kind the locator distinguishes
InterfaceAdd == <<"interface", "add", "{", "}">>
TypeAdd == <<"type", "add", "=", "x">>
ClassAdd == <<"class", "add", "{", "}">>
ConstSub == <<"const", "sub", "=", "x">>
NestedAdd == <<"function", "add", "()", "{", "function", "add", "()", "{", "}", "}">>

KindChunks == {FnAdd, ClassX, InterfaceAdd, TypeAdd, ClassAdd, ConstSub, NestedAdd}

\* lines with the searched word inside and outside string literals
StrAdd == <<"x", "=", QUOTE, "add", QUOTE>>
StrAddCallAdd == <<"x", "=", QUOTE, "add", QUOTE, "+", "add", "()">>
CapsCallAdd == <<"Add", "()">>
ImportAdd == <<"import", "add">>
ImportStrAdd == <<"import", "x", "from", QUOTE, "add", QUOTE>>

FnSubCallsAdd == <<"function", "sub", "()", "{", NL, WS, "add", "()", NL, "}">>

SearchChunks == {StrAdd, StrAddCallAdd, CapsCallAdd, ImportAdd, ImportStrAdd, CallAdd, CommentAdd, FnSub, FnSubCallsAdd}

SearchSources == SearchChunks \cup {s \o <<NL>> \o c : s \in SearchChunks, c \in SearchChunks}

KindSources == KindChunks \cup {s \o <<NL>> \o c : s \in KindChunks, c \in KindChunks}

Names == {"add", "sub"}
ExtractTypes == {"function", "class", "variable", "interface", "type", "method", "enum"}
ReplaceTypes == {"function", "class", "interface", "type", "method"}
NewContents == {<<"function", "add", "()", "{", "x", "}">>, FnSub}
Extensions == {".ts", ".rs"}
Bases == {"x", "credentials"}
Grammars == {"ok", "missing", "crash"}

(***************************************************************************)
(* State.                                                                  *)
(***************************************************************************)
VARIABLES
    file,      \* content of the file the calls work on
    base,      \* its name without the extension
    ext,       \* its extension
    grammar,   \* state of the tree-sitter grammar: "ok", "missing", "crash"
    backups,   \* the copies made under .mcp-backups, oldest first
    pc,        \* "idle" or "returned"
    call,      \* the call in progress: operation and arguments
    ret,       \* its outcome
    tmp,       \* the temporary lint files under /tmp: name -> content
    task       \* the lint calls in progress, one record per logical task

vars == <<file, base, ext, grammar, backups, pc, call, ret, tmp, task>>

NoCall == [op |-> "none"]

\* no temporary file, no lint call
NoFiles == <<>>
NoTasks == <<>>

\* the language a handler hands to the analyzer: detectLanguage(path) || 'unknown'
LanguageOrUnknown(e) == IF detectLanguage(e) = "" THEN "unknown" ELSE detectLanguage(e)

CurrentAnalyzer == NewAnalyzer(LanguageOrUnknown(ext), grammar)

Init ==
    /\ file \in Sources
    /\ base = "x"
    /\ ext \in Extensions
    /\ grammar \in Grammars
    /\ backups = <<>>
    /\ pc = "idle"
    /\ call = NoCall
    /\ ret = NoCall
    /\ tmp = NoFiles
    /\ task = NoTasks

InitTool ==
    /\ file \in ToolSources
    /\ base = "x"
    /\ ext \in Extensions
    /\ grammar \in Grammars
    /\ backups = <<>>
    /\ pc = "idle"
    /\ call = NoCall
    /\ ret = NoCall
    /\ tmp = NoFiles
    /\ task = NoTasks

Returns(c, r) ==
    /\ pc' = "returned"
    /\ call' = c
    /\ ret' = r
    /\ UNCHANGED <<tmp, task>>

\* analyzer.getOutline(content)
GetOutline ==
    /\ pc = "idle"
    /\ Returns([op |-> "getOutline"], getOutline(CurrentAnalyzer, file))
    /\ UNCHANGED <<file, base, ext, grammar, backups>>

\* analyzer.extractElement(content, element_name, type, context_lines)
ExtractElement ==
    /\ pc = "idle"
    /\ \E n \in Names, t \in ExtractTypes, c \in 0..MaxContext :
          Returns([op |-> "extractElement", name |-> n, type |-> t, contextLines |-> c],
                  extractElement(CurrentAnalyzer, file, n, t, c))
    /\ UNCHANGED <<file, base, ext, grammar, backups>>

\* the text of rows startIdx.. up to the row the brace matching ends on
RowsText(lines, startIdx) ==
    IF startIdx = -1 THEN {}
    ELSE {JoinLines(SliceLines(lines, startIdx,
                               FindEndIdx(lines, startIdx, startIdx, 0, FALSE) + 1))}

NodeText(an, tree, node, toks, n, t) ==
    IF an.useAST /\ ~an.crash /\ node # 0
    THEN {Slice(toks, tree[node].start, tree[node].end)}
    ELSE RowsText(SplitLines(toks), FindStartIdx(SplitLines(toks), n, t))

TextInTree(an, tree, toks, n, t) ==
    NodeText(an, tree, _findElementNode(tree, toks, n, t), toks, n, t)

\* the text a replacement would substitute for (name, type): {text}, or {}
\* when replaceElement finds no element
OwnText(an, toks, n, t) == TextInTree(an, ParseTree(toks), toks, n, t)

\* analyzer.replaceElement(content, element_name, element_type, new_content);
\* the new content is a fresh declaration or the element's own text
ReplaceElement ==
    /\ pc = "idle"
    /\ \E n \in Names, t \in ReplaceTypes :
         \E nc \in NewContents \cup OwnText(CurrentAnalyzer, file, n, t) :
          Returns([op |-> "replaceElement", name |-> n, type |-> t, newContent |-> nc],
                  replaceElement(CurrentAnalyzer, file, n, t, nc))
    /\ UNCHANGED <<file, base, ext, grammar, backups>>

\* smartSearch(path, pattern): ripgrep hits, then _classifyResults
SmartSearch ==
    /\ pc = "idle"
    /\ \E p \in Names :
          Returns([op |-> "smartSearch", pattern |-> p],
                  Ret(_classifyResults(NewAnalyzer(ExtensionToLanguage(ext), grammar),
                                       ext, file, RawHits(file, p), p)))
    /\ UNCHANGED <<file, base, ext, grammar, backups>>

\* the ast_replace_element tool
AstReplaceElementTool ==
    /\ pc = "idle"
    /\ Len(backups) < MaxBackups
    /\ \E exists \in BOOLEAN, n \in Names, t \in ReplaceTypes, nc \in NewContents :
         \E now \in Clock(backups) :
         \E s \in {AstReplaceElementHandler(file, backups, now, ext, grammar, n, t, nc)} :
             IF ~exists
             THEN /\ Returns([op |-> "ast_replace_element", exists |-> exists,
                              name |-> n, type |-> t, newContent |-> nc],
                             Throw(<<"File not found">>))
                  /\ UNCHANGED <<file, backups>>
             ELSE /\ Returns([op |-> "ast_replace_element", exists |-> exists,
                              name |-> n, type |-> t, newContent |-> nc], s.ret)
                  /\ file' = s.file
                  /\ backups' = s.backups
    /\ UNCHANGED <<base, ext, grammar>>

BatchOps ==
    [exists : BOOLEAN, element_name : Names, type : {"function", "method"},
     content : {FnSub}]

RECURSIVE OpLists(_)
OpLists(n) ==
    IF n = 0 THEN {<<>>}
    ELSE OpLists(n - 1) \cup {Append(l, o) : l \in OpLists(n - 1) \ {<<>>}, o \in BatchOps}
         \cup {<<o>> : o \in BatchOps}

\* n successive values of Date.now(), the first one in `first`: the clock
\* stays in its millisecond or moves to the next
RECURSIVE Readings(_, _)
Readings(first, n) ==
    IF n = 0 THEN {<<>>}
    ELSE IF n = 1 THEN {<<t>> : t \in first}
    ELSE UNION {{Append(r, r[n - 1]), Append(r, r[n - 1] + 1)} : r \in Readings(first, n - 1)}

\* the batch_smart_apply tool with ast_replace_element operations
BatchSmartApply ==
    /\ pc = "idle"
    /\ \E ops \in OpLists(MaxBatchOps) :
         \E times \in Readings(Clock(backups), Len(ops)) :
         \E s \in {BatchLoop(file, backups, times, ext, grammar, ops, 1, <<>>, <<>>)} :
             /\ Len(s.backups) <= MaxBackups
             /\ Returns([op |-> "batch_smart_apply", operations |-> ops],
                        Ret([status |-> "completed", results |-> s.results,
                             backups |-> s.pushed]))
             /\ file' = s.file
             /\ backups' = s.backups
    /\ UNCHANGED <<base, ext, grammar>>

\* the path the tool calls name: the file in its directory
FilePath == <<"src", "/", base, ext>>

\* the get_file_outline tool
GetFileOutlineTool ==
    /\ pc = "idle"
    /\ \E exists \in BOOLEAN :
          Returns([op |-> "get_file_outline", path |-> FilePath, exists |-> exists],
                  IF exists THEN GetFileOutlineHandler(file, ext, grammar)
                  ELSE Throw(<<"File not found">>))
    /\ UNCHANGED <<file, base, ext, grammar, backups>>

\* the restore_backup tool: backup names a backup of the file or is left out
\* (0), which selects the newest one
RestoreBackupTool ==
    /\ pc = "idle"
    /\ Len(backups) < MaxBackups
    /\ \E confirm \in BOOLEAN, backup \in {0} \cup {backups[i].time : i \in 1..Len(backups)} :
         \E now \in Clock(backups) :
             IF backups = <<>>
             THEN /\ Returns([op |-> "restore_backup", path |-> FilePath,
                              backup |-> backup, confirm |-> confirm],
                             Throw(<<"No backups found">>))
                  /\ UNCHANGED <<file, backups>>
             ELSE \E s \in {RestoreBackupHandler(file, backups, now,
                                                  IF backup = 0 THEN LastTime(backups)
                                                  ELSE backup, confirm)} :
                      /\ Returns([op |-> "restore_backup", path |-> FilePath,
                                  backup |-> backup, confirm |-> confirm], s.ret)
                      /\ file' = s.file
                      /\ backups' = s.backups
    /\ UNCHANGED <<base, ext, grammar>>

\* the response is handed to the client; the next call can start
Respond ==
    /\ pc = "returned"
    /\ pc' = "idle"
    /\ call' = NoCall
    /\ ret' = NoCall
    /\ UNCHANGED <<file, base, ext, grammar, backups, tmp, task>>

Next == GetOutline \/ ExtractElement \/ ReplaceElement \/ SmartSearch \/ Respond

Spec == Init /\ [][Next]_vars

NextTool == AstReplaceElementTool \/ BatchSmartApply \/ Respond

SpecTool == InitTool /\ [][NextTool]_vars

\* the tools that write the file and its backups, on a TypeScript file
InitBackup ==
    /\ file = FnAdd \o <<NL>> \o FnSub
    /\ base = "x"
    /\ ext = ".ts"
    /\ grammar \in {"ok", "crash"}
    /\ backups = <<>>
    /\ pc = "idle"
    /\ call = NoCall
    /\ ret = NoCall
    /\ tmp = NoFiles
    /\ task = NoTasks

NextBackup == AstReplaceElementTool \/ BatchSmartApply \/ RestoreBackupTool \/ Respond

SpecBackup == InitBackup /\ [][NextBackup]_vars

\* the tools on files with plain and with sensitive names
InitPaths ==
    /\ file \in ToolSources
    /\ base \in Bases
    /\ ext \in Extensions
    /\ grammar \in Grammars
    /\ backups = <<>>
    /\ pc = "idle"
    /\ call = NoCall
    /\ ret = NoCall
    /\ tmp = NoFiles
    /\ task = NoTasks

NextPaths == GetFileOutlineTool \/ AstReplaceElementTool \/ Respond

SpecPaths == InitPaths /\ [][NextPaths]_vars

\* the locator on sources of every kind
InitKinds ==
    /\ file \in KindSources
    /\ base = "x"
    /\ ext \in Extensions
    /\ grammar \in Grammars
    /\ backups = <<>>
    /\ pc = "idle"
    /\ call = NoCall
    /\ ret = NoCall
    /\ tmp = NoFiles
    /\ task = NoTasks

NextKinds == ExtractElement \/ ReplaceElement \/ Respond

SpecKinds == InitKinds /\ [][NextKinds]_vars

\* the search over lines with string literals
InitSearch ==
    /\ file \in SearchSources
    /\ base = "x"
    /\ ext \in Extensions
    /\ grammar \in Grammars
    /\ backups = <<>>
    /\ pc = "idle"
    /\ call = NoCall
    /\ ret = NoCall
    /\ tmp = NoFiles
    /\ task = NoTasks

NextSearch == SmartSearch \/ Respond

SpecSearch == InitSearch /\ [][NextSearch]_vars

(***************************************************************************)
(* Properties.  A state with pc = "returned" holds a finished call: its    *)
(* operation and arguments in `call`, its outcome in `ret`.                *)
(***************************************************************************)
Returned(op) == pc = "returned" /\ call.op = op

\* the analyzer of the current file takes the AST path: a grammar is loaded
\* and parser.parse does not throw
AstPath == CurrentAnalyzer.useAST /\ ~CurrentAnalyzer.crash

\* C1: every search hit whose line is a comment in the language of its file is
\* classified `comment`, when the parse succeeds and on the fallback path
CommentHitsAreComments ==
    Returned("smartSearch") =>
        \A i \in 1..Len(ret.val) :
            _isComment(ret.val[i].content, ExtensionToLanguage(ext))
                => ret.val[i].classification = "comment"

\* node i is a statement of the program, exported or not
TopLevel(tree, i) ==
    \/ tree[i].parent = 0
    \/ /\ tree[tree[i].parent].type = "export_statement"
       /\ tree[tree[i].parent].parent = 0

\* node i declares a named function: function name() {} or const name = () => {}
DeclaresFunction(tree, i) ==
    \/ tree[i].type = "function_declaration"
    \/ /\ tree[i].type = "lexical_declaration"
       /\ FindDeclarator(tree, i) # 0
       /\ tree[FindDeclarator(tree, i)].value \in FunctionValueTypes

DeclaredName(tree, i) ==
    IF tree[i].type = "function_declaration" THEN tree[i].name
    ELSE tree[FindDeclarator(tree, i)].name

TopLevelFunctions(tree) ==
    {i \in 1..Len(tree) : TopLevel(tree, i) /\ DeclaresFunction(tree, i)}

FunctionEntries(outline) == {i \in 1..Len(outline) : outline[i].type = "function"}

ExactlyTheFunctions(outline, tree) ==
    /\ Cardinality(FunctionEntries(outline)) = Cardinality(TopLevelFunctions(tree))
    /\ \A d \in TopLevelFunctions(tree) :
           \E i \in FunctionEntries(outline) : outline[i].name = DeclaredName(tree, d)
    /\ \A i, j \in FunctionEntries(outline) :
           i < j => outline[i].line < outline[j].line

\* C2: for a source of a supported language with N top-level named function
\* declarations, getOutline returns exactly N entries of kind `function`, one
\* per declaration, with strictly increasing start lines
OneEntryPerFunction ==
    Returned("getOutline") /\ detectLanguage(ext) # "" =>
        ret.ok /\ ExactlyTheFunctions(ret.val, ParseTree(file))

\* r is toks with the tokens of [s, e) replaced by new: every token outside
\* the range is where it was, relative to its end of the text
OutsideUnchanged(r, toks, s, e, new) ==
    /\ Len(r) = s + Len(new) + (Len(toks) - e)
    /\ \A k \in 1..s : r[k] = toks[k]
    /\ \A k \in 1..Len(new) : r[s + k] = new[k]
    /\ \A k \in 1..(Len(toks) - e) : r[s + Len(new) + k] = toks[e + k]

ReplacedAtNode(r, toks, tree, node, new) ==
    node # 0 => r.ok /\ OutsideUnchanged(r.val, toks, tree[node].start, tree[node].end, new)

ReplacedInTree(r, toks, tree, n, t, new) ==
    ReplacedAtNode(r, toks, tree, _findElementNode(tree, toks, n, t), new)

\* C3: on the AST path replaceElement returns prefix + newText + suffix, the
\* prefix being the source up to the matched node's start offset and the
\* suffix the source from its end offset
AstReplaceKeepsRest ==
    Returned("replaceElement") /\ AstPath =>
        ReplacedInTree(ret, file, ParseTree(file), call.name, call.type, call.newContent)

\* C3, the case: add is replaced in a source that also declares sub, and sub
\* is untouched
AstReplaceLeavesSub ==
    /\ Returned("replaceElement")
    /\ AstPath
    /\ file = FnAdd \o <<NL>> \o FnSub
    /\ call.name = "add"
    /\ call.type = "function"
    /\ call.newContent = <<"function", "add", "()", "{", "x", "}">>
    /\ ret = Ret(call.newContent \o <<NL>> \o FnSub)

\* C4: the results of one extractElement call hold no two entries with the
\* same (startLine, endLine) pair
NoDuplicateSpans ==
    Returned("extractElement") =>
        \A i, j \in 1..Len(ret.val) :
            i < j /\ ~IsMarker(ret.val[i]) /\ ~IsMarker(ret.val[j])
                => <<ret.val[i].startLine, ret.val[i].endLine>>
                   # <<ret.val[j].startLine, ret.val[j].endLine>>

\* extractElement located the element: its results are no marker
Located(results) == Len(results) > 0 /\ ~IsMarker(results[1])

\* names, kinds and line spans of an outline
OutlineView(outline) ==
    [i \in 1..Len(outline) |->
        <<outline[i].name, outline[i].type, outline[i].line,
          IF "endLine" \in outline[i].fields THEN outline[i].endLine ELSE 0>>]

SameOutline(a, b) == a.ok /\ b.ok /\ OutlineView(a.val) = OutlineView(b.val)

\* C5: if extractElement locates (name, kind), replacing the element by its
\* own current text returns a source with the outline of the original, and
\* the same replacement applied again changes nothing further
OwnTextReplaceKeepsOutline ==
    /\ Returned("replaceElement")
    /\ call.newContent \in OwnText(CurrentAnalyzer, file, call.name, call.type)
    /\ Located(extractElement(CurrentAnalyzer, file, call.name, call.type, 0).val)
    => /\ ret.ok
       /\ SameOutline(getOutline(CurrentAnalyzer, ret.val),
                      getOutline(CurrentAnalyzer, file))
       /\ replaceElement(CurrentAnalyzer, ret.val, call.name, call.type,
                         call.newContent) = ret

\* (name, kind) of the entries S of an outline
Pairs(outline, S) == {<<outline[i].name, outline[i].type>> : i \in S}

\* entries of an AST outline for the statements of the program
TopLevelEntries(outline) == {i \in 1..Len(outline) : outline[i].depth = 0}

\* entries of a regex outline for lines that are not indented
UnindentedEntries(outline, lines) ==
    {i \in 1..Len(outline) : Trim(lines[outline[i].line]) = lines[outline[i].line]}

\* C6: on a source to which both apply, the AST outline and the regex outline
\* report the same set of (name, kind) pairs for the top-level declarations
AstAndRegexAgree ==
    Returned("getOutline") /\ AstPath =>
        Pairs(ret.val, TopLevelEntries(ret.val))
        = Pairs(_getOutlineWithRegex(file),
                UnindentedEntries(_getOutlineWithRegex(file), SplitLines(file)))

\* C7: when no grammar is registered for the language or the AST step throws,
\* the outcome of getOutline, extractElement and replaceElement is the outcome
\* of the regex fallback on the same inputs; no AST exception is thrown
FallbackIsRegex ==
    pc = "returned" /\ ~AstPath =>
        /\ call.op = "getOutline" => ret = Ret(_getOutlineWithRegex(file))
        /\ call.op = "extractElement" =>
               ret = Ret(_extractElementWithRegex(file, call.name, call.type,
                                                  call.contextLines))
        /\ call.op = "replaceElement" =>
               ret = _replaceElementWithRegex(file, call.name, call.type,
                                              call.newContent)

\* C7, the case: an outline is asked for a .rs file, for which no grammar is
\* registered, and regex-derived entries come back
UnsupportedLanguageOutline ==
    /\ Returned("getOutline")
    /\ ext = ".rs"
    /\ ret.ok
    /\ Len(ret.val) > 0
    /\ \A i \in 1..Len(ret.val) : "endLine" \notin ret.val[i].fields

\* C8: when neither a node nor a line matches (name, kind), replaceElement
\* reports not-found as a result; it throws no exception to its caller
ReplaceReportsNotFound ==
    Returned("replaceElement")
    /\ _findElementNode(ParseTree(file), file, call.name, call.type) = 0
    /\ FindStartIdx(SplitLines(file), call.name, call.type) = -1
    => ret.ok

\* the nodes and the rows extractElement matches for (name, kind)
MatchingNodes(tree, toks, n, t) ==
    {i \in 1..Len(tree) :
        /\ _nodeToOutlineItem(tree, toks, SplitLines(toks), i) # NoItem
        /\ _nodeToOutlineItem(tree, toks, SplitLines(toks), i).name = n
        /\ TypeMatchesExtract(t, _nodeToOutlineItem(tree, toks, SplitLines(toks), i).type)}

MatchingRows(lines, n, t) ==
    {i \in 1..Len(lines) : ExtractLineMatches(t, n, lines[i])}

NothingMatches(toks, n, t) ==
    IF AstPath THEN MatchingNodes(ParseTree(toks), toks, n, t) = {}
    ELSE MatchingRows(SplitLines(toks), n, t) = {}

\* C9: extractElement throws nothing; when no node or line matches it returns
\* exactly one marker record with a `not found` message, and a returned list
\* never holds a marker next to anything else
NotFoundIsOneMarker ==
    Returned("extractElement") =>
        /\ ret.ok
        /\ Len(ret.val) >= 1
        /\ (\E i \in 1..Len(ret.val) : IsMarker(ret.val[i]))
               => ret.val = <<NotFound(call.name, call.type)>>
        /\ NothingMatches(file, call.name, call.type)
               => ret.val = <<NotFound(call.name, call.type)>>

\* C9, the case: sub is asked for in a source that declares only add
SubNotFoundInAdd ==
    /\ Returned("extractElement")
    /\ file = FnAdd
    /\ call.name = "sub"
    /\ ret = Ret(<<NotFound("sub", call.type)>>)
    /\ NotFound("sub", call.type).message[1] = "not found"

\* the operations of a batch that found their file all ended with status error
AllFailed(operations, results) ==
    \A k \in 1..Len(operations) : operations[k].exists => results[k].status = "error"

\* C10: a replacement for a language without a registered grammar throws; it
\* never rewrites the source and never reports success
NoGrammarReplacementThrows ==
    pc = "returned" /\ ~HasLanguageModule(detectLanguage(ext), grammar) =>
        /\ call.op = "ast_replace_element" /\ call.exists => ~ret.ok
        /\ call.op = "batch_smart_apply" =>
               AllFailed(call.operations, ret.val.results)

\* the kind-compatibility relation as the contract states it
KindCompatible(request, kind) ==
    IF request = "function" THEN kind \in {"function", "method"}
    ELSE IF request = "type" THEN kind \in {"type", "interface"}
    ELSE kind = request

\* the nodes whose outline classification is (n, a kind compatible with t)
CompatibleNodes(tree, toks, n, t) ==
    {i \in 1..Len(tree) :
        /\ _nodeToOutlineItem(tree, toks, SplitLines(toks), i) # NoItem
        /\ _nodeToOutlineItem(tree, toks, SplitLines(toks), i).name = n
        /\ KindCompatible(t, _nodeToOutlineItem(tree, toks, SplitLines(toks), i).type)}

KindsOf(tree, toks, S) ==
    {_nodeToOutlineItem(tree, toks, SplitLines(toks), i).type : i \in S}

\* the results of an extraction are the compatible nodes and no others
ExtractedAreCompatible(results, tree, toks, n, t) ==
    IF CompatibleNodes(tree, toks, n, t) = {}
    THEN results = <<NotFound(n, t)>>
    ELSE \A k \in 1..Len(results) :
             /\ ~IsMarker(results[k])
             /\ results[k].name = n
             /\ KindCompatible(t, results[k].type)
             /\ results[k].type \in KindsOf(tree, toks, CompatibleNodes(tree, toks, n, t))

\* the node a replacement rewrites is a compatible node; without one the tree
\* locates nothing and the outcome is that of the regex fallback
ReplacedIsCompatible(r, tree, toks, n, t, new) ==
    IF CompatibleNodes(tree, toks, n, t) = {}
    THEN r = _replaceElementWithRegex(toks, n, t, new)
    ELSE \E i \in CompatibleNodes(tree, toks, n, t) : ReplacedAtNode(r, toks, tree, i, new)

TextKept(r, toks, tree, first, j, new) ==
    /\ tree[j].start >= tree[first].end
    /\ Slice(r, tree[j].start + Len(new) - (tree[first].end - tree[first].start),
                tree[j].end + Len(new) - (tree[first].end - tree[first].start))
       = Slice(toks, tree[j].start, tree[j].end)

\* r is toks with node `first` rewritten and the nodes of `others` kept
RewritesOnly(r, toks, tree, first, others, new) ==
    /\ ReplacedAtNode(r, toks, tree, first, new)
    /\ \A j \in others : TextKept(r.val, toks, tree, first, j, new)

Outside(tree, first, S) == {j \in S : j # first /\ ~IsAncestor(tree, first, j)}

\* C12 as stated: of several nodes matching (name, kind) replaceElement
\* rewrites the first in pre-order and leaves the text of every other
\* matching node unchanged
ReplaceKeepsEveryOtherMatch ==
    Returned("replaceElement") /\ AstPath
    /\ CompatibleNodes(ParseTree(file), file, call.name, call.type) # {}
    => \E S \in {CompatibleNodes(ParseTree(file), file, call.name, call.type)} :
           RewritesOnly(ret, file, ParseTree(file), FirstOf(S), S \ {FirstOf(S)},
                        call.newContent)

\* C12, amended: of several nodes matching (name, kind) replaceElement
\* rewrites the first in pre-order, and every other matching node that is
\* not nested in the rewritten one keeps its text
ReplaceKeepsMatchesOutside ==
    Returned("replaceElement") /\ AstPath
    /\ CompatibleNodes(ParseTree(file), file, call.name, call.type) # {}
    => \E S \in {CompatibleNodes(ParseTree(file), file, call.name, call.type)} :
           RewritesOnly(ret, file, ParseTree(file), FirstOf(S),
                        Outside(ParseTree(file), FirstOf(S), S), call.newContent)

\* C12, the case: of two declarations of add the first is rewritten
FirstOfTwoAddsRewritten ==
    /\ Returned("replaceElement")
    /\ AstPath
    /\ file = FnAdd \o <<NL>> \o FnAdd
    /\ call.name = "add"
    /\ call.type = "function"
    /\ call.newContent = FnSub
    /\ ret = Ret(FnSub \o <<NL>> \o FnAdd)

\* the entries of an outline that start on line l, in the order of the list
OnLine(outline, l) == SelectSeq(outline, LAMBDA item : item.line = l)

Ascending(outline) ==
    \A i, j \in 1..Len(outline) : i < j => outline[i].line <= outline[j].line

\* outline holds the entries of `collected`, and those of one line follow
\* each other as they do in `collected`
TiesKeepOrder(outline, collected) ==
    /\ Len(outline) = Len(collected)
    /\ \A k \in 1..Len(collected) :
           OnLine(outline, collected[k].line) = OnLine(collected, collected[k].line)

\* C13: the list getOutline returns is in ascending order of start line on
\* the AST path and on the regex path, and entries of the tree that start on
\* the same line stay in pre-order
OutlineOrderedByLine ==
    Returned("getOutline") =>
        /\ ret.ok
        /\ Ascending(ret.val)
        /\ AstPath =>
               TiesKeepOrder(ret.val,
                             _collectOutlineFromAST(ParseTree(file), file, SplitLines(file)))

\* C13, the case: an export statement and its declaration share line 1, the
\* statement first, and the declaration of line 2 follows them
ExportTieBeforeSub ==
    /\ Returned("getOutline")
    /\ AstPath
    /\ file = ExportFnAdd \o <<NL>> \o FnSub
    /\ Len(ret.val) = 3
    /\ <<ret.val[1].line, ret.val[2].line, ret.val[3].line>> = <<1, 1, 2>>
    /\ "exported" \in ret.val[1].fields
    /\ "exported" \notin ret.val[2].fields

\* the rows <<s, e>> of the elements located for (n, t): the rows of the
\* matching nodes, or on the regex path the matching rows, each up to the
\* row its braces close on
LocatedSpans(tree, toks, lines, n, t) ==
    IF AstPath
    THEN {<<StartRow(toks, tree[i]), EndRow(toks, tree[i])>> :
             i \in MatchingNodes(tree, toks, n, t)}
    ELSE {<<i - 1, FindEndIdx(lines, i - 1, i - 1, 0, FALSE)>> :
             i \in MatchingRows(lines, n, t)}

\* the rows from max(0, s - c) to min(lastLine, e + c), joined with newline
WithContext(lines, span, c) ==
    JoinLines(SliceLines(lines, Max(0, span[1] - c),
                         Min(Len(lines) - 1, span[2] + c) + 1))

ContentOfSpans(results, lines, spans, c) ==
    \A k \in 1..Len(results) :
        ~IsMarker(results[k]) =>
            \E span \in spans : results[k].content = WithContext(lines, span, c)

\* C14: the content of every result of extractElement is the source from row
\* max(0, s - contextLines) to row min(lastLine, e + contextLines), s and e
\* the first and last row of the located element, on either path
ContentIsElementWithContext ==
    Returned("extractElement") =>
        /\ ret.ok
        /\ ContentOfSpans(ret.val, SplitLines(file),
                          LocatedSpans(ParseTree(file), file, SplitLines(file),
                                       call.name, call.type),
                          call.contextLines)

\* the fields of an outline entry: kind, name, start line, end line,
\* signature, depth
EntryFields == {"type", "name", "line", "endLine", "signature", "depth"}

\* C15: every entry of an outline carries kind, name, start line, end line,
\* signature and depth, whichever path produced it
OutlineEntriesSameShape ==
    Returned("getOutline") =>
        /\ ret.ok
        /\ \A k \in 1..Len(ret.val) : EntryFields \subseteq ret.val[k].fields

\* position i of the line lies in a quoted span: an opening quote before it
\* and the closing quote after it
InQuotedSpan(line, i) ==
    /\ Cardinality({j \in 1..(i - 1) : line[j] = QUOTE}) % 2 = 1
    /\ \E j \in (i + 1)..Len(line) : line[j] = QUOTE

\* the text that matched the pattern occurs on the line outside its quoted spans
MatchedOutsideQuotes(line, pattern) ==
    \E i \in 1..Len(line) :
        /\ line[i] # QUOTE
        /\ Lower(line[i]) = Lower(pattern)
        /\ ~InQuotedSpan(line, i)

CodeLine(line, language) == ~_isComment(line, language) /\ ~_isImportLine(line, language)

\* C16: a hit on a line that is neither a comment nor an import is classified
\* string exactly when the text that matched the pattern does not occur on
\* the line outside its quoted spans
StringIffOnlyInQuotes ==
    Returned("smartSearch") =>
        \A k \in 1..Len(ret.val) :
            CodeLine(Trim(ret.val[k].content), ExtensionToLanguage(ext)) =>
                (ret.val[k].classification = "string"
                     <=> ~MatchedOutsideQuotes(Trim(ret.val[k].content), call.pattern))

\* the timestamps that name the backups on disk
BackupNames(bk) == {bk[i].time : i \in 1..Len(bk)}

\* some backup on disk holds the content c
BackedUp(bk, c) == \E t \in BackupNames(bk) : ContentAt(bk, t) = c

\* every backup on disk in bk is on disk in bk1 with the content it had
BackupsKept(bk, bk1) ==
    \A t \in BackupNames(bk) : t \in BackupNames(bk1) /\ ContentAt(bk1, t) = ContentAt(bk, t)

\* C17: a tool call that overwrites the file leaves a backup under
\* .mcp-backups whose content is the content the file had immediately before
\* the call, and no call overwrites a backup made earlier
EveryOverwriteIsBackedUp ==
    [][/\ file' # file => BackedUp(backups', file)
       /\ BackupsKept(backups, backups')]_vars

\* an operation of the batch ended with status error
SomeFailed(results) == \E k \in 1..Len(results) : results[k].status = "error"

\* the file after operation k of ops is applied to content, nothing else done
OneApplied(r, content) == IF r.ok THEN r.val ELSE content

\* the file with the operations k.. of ops in effect, one after the other
RECURSIVE AllApplied(_, _, _, _, _)
AllApplied(content, fileExt, gr, ops, k) ==
    IF k > Len(ops) THEN content
    ELSE IF ~ops[k].exists \/ detectLanguage(fileExt) = ""
    THEN AllApplied(content, fileExt, gr, ops, k + 1)
    ELSE AllApplied(OneApplied(replaceElement(NewAnalyzer(detectLanguage(fileExt), gr),
                                              content, ops[k].element_name,
                                              ops[k].type, ops[k].content),
                               content),
                    fileExt, gr, ops, k + 1)

\* C18: batch_smart_apply is atomic: when one of its operations fails the
\* file is as it was before the call, otherwise every operation is in effect
BatchIsAtomic ==
    [][pc = "idle" /\ call'.op = "batch_smart_apply" =>
          IF SomeFailed(ret'.val.results)
          THEN file' = file
          ELSE file' = AllApplied(file, ext, grammar, call'.operations, 1)]_vars

\* the newest backup on disk
NewestBackup(bk) == CHOOSE t \in BackupNames(bk) : \A u \in BackupNames(bk) : u <= t

\* C19: restore_backup with confirm leaves the file with the content the
\* selected backup had when the call began, and the newest backup afterwards
\* holds the content the file had before the restore
RestoreSwapsFileAndBackup ==
    [][pc = "idle" /\ call'.op = "restore_backup" /\ ret'.ok /\ ret'.val.status = "restored" =>
          /\ file' = ContentAt(backups, ret'.val.restored_from)
          /\ ContentAt(backups', NewestBackup(backups')) = file]_vars

\* C20: a call on a path that matches a sensitive pattern is rejected
SensitivePathRejected == pc = "returned" /\ isSensitivePath(FilePath) => ~ret.ok

(***************************************************************************)
(* server.js: resolveSafePath.  A path is a sequence of tokens: "/" and    *)
(* "\\" are the separators, "C:" a drive prefix, every other token a run   *)
(* of characters of one path segment (so <<"workspace", "-evil">> is the   *)
(* segment workspace-evil).  startsWith on strings is a prefix of tokens.  *)
(***************************************************************************)
HasPrefix(p, prefix) == Len(p) >= Len(prefix) /\ SubSeq(p, 1, Len(prefix)) = prefix

WORKSPACE_ROOT == <<"/", "workspace">>

\* normalizedPath.replace(/\\/g, '/')
ToForwardSlashes(p) == [i \in 1..Len(p) |-> IF p[i] = "\\" THEN "/" ELSE p[i]]

Drives == {"C:"}

\* the match of /^([a-zA-Z]):\/(.*)$/ is replaced by '/' + its second group
StripDrive(p) == IF Len(p) >= 2 /\ p[1] \in Drives /\ p[2] = "/" THEN <<"/">> \o SubSeq(p, 3, Len(p)) ELSE p

\* a leading /name/ loses /name; the bare /workspace becomes /
StripWorkspace(p) == IF HasPrefix(p, <<"/", "workspace", "/">>) THEN SubSeq(p, 3, Len(p)) ELSE IF p = <<"/", "workspace">> THEN <<"/">> ELSE p

StripHost(p) == IF HasPrefix(p, <<"/", "host", "/">>) THEN SubSeq(p, 3, Len(p)) ELSE p

Rooted(p) == IF HasPrefix(p, <<"/">>) THEN p ELSE <<"/">> \o p

\* the segments of a path: the runs of tokens between separators
RECURSIVE Segments(_)
Segments(p) ==
    IF \A i \in 1..Len(p) : p[i] # "/"
    THEN <<p>>
    ELSE LET k == CHOOSE i \in 1..Len(p) : p[i] = "/" /\ \A j \in 1..(i - 1) : p[j] # "/"
         IN  <<SubSeq(p, 1, k - 1)>> \o Segments(SubSeq(p, k + 1, Len(p)))

\* path normalisation from the root: empty and . segments go, .. drops the
\* segment before it and is dropped at the root
RECURSIVE ResolveSegments(_, _)
ResolveSegments(segs, acc) ==
    IF segs = <<>> THEN acc
    ELSE IF Head(segs) \in {<<>>, <<".">>} THEN ResolveSegments(Tail(segs), acc)
    ELSE IF Head(segs) = <<"..">>
    THEN ResolveSegments(Tail(segs), IF acc = <<>> THEN acc ELSE SubSeq(acc, 1, Len(acc) - 1))
    ELSE ResolveSegments(Tail(segs), Append(acc, Head(segs)))

RECURSIVE JoinSegments(_)
JoinSegments(segs) == IF segs = <<>> THEN <<>> ELSE <<"/">> \o Head(segs) \o JoinSegments(Tail(segs))

\* path.resolve(path.join(root, p)) for an absolute root
ResolveUnder(root, p) ==
    LET segs == ResolveSegments(Segments(root \o <<"/">> \o p), <<>>)
    IN  IF segs = <<>> THEN <<"/">> ELSE JoinSegments(segs)

\* the first part of resolveSafePath, common to the three modes
NormalizedPath(inputPath) == StripHost(StripWorkspace(StripDrive(ToForwardSlashes(inputPath))))

\* MODE 3: an absolute path outside the workspace root loses its leading /
WorkspaceRelative(p) == IF HasPrefix(p, <<"/">>) /\ ~HasPrefix(p, WORKSPACE_ROOT) THEN Tail(p) ELSE p

\* the security check of MODE 3 on the resolved path
CheckedPath(realResolved) ==
    IF ~HasPrefix(realResolved, ResolveUnder(<<>>, WORKSPACE_ROOT))
    THEN Throw(<<"Security: Path is outside workspace.">>)
    ELSE Ret(realResolved)

\* mode is "host" (HOST_MOUNT_EXISTS), "bridge" (USE_BRIDGE) or "workspace"
resolveSafePath(inputPath, mode) ==
    IF mode = "host" THEN Ret(<<"/", "host">> \o Rooted(NormalizedPath(inputPath)))
    ELSE IF mode = "bridge" THEN Ret(Rooted(NormalizedPath(inputPath)))
    ELSE CheckedPath(ResolveUnder(WORKSPACE_ROOT, WorkspaceRelative(NormalizedPath(inputPath))))

MaxPathLen == 4
PathTokens == {"/", "\\", "C:", "..", "workspace", "-evil", "host", "a"}
PathInputs == UNION {[1..n -> PathTokens] : n \in 0..MaxPathLen}
Modes == {"host", "bridge", "workspace"}

InitResolve ==
    /\ file = FnAdd
    /\ base = "x"
    /\ ext = ".ts"
    /\ grammar = "ok"
    /\ backups = <<>>
    /\ pc = "idle"
    /\ call = NoCall
    /\ ret = NoCall
    /\ tmp = NoFiles
    /\ task = NoTasks

\* a handler resolves the path it was given
ResolveSafePath ==
    /\ pc = "idle"
    /\ \E inputPath \in PathInputs, mode \in Modes :
          Returns([op |-> "resolveSafePath", path |-> inputPath, mode |-> mode],
                  resolveSafePath(inputPath, mode))
    /\ UNCHANGED <<file, base, ext, grammar, backups>>

NextResolve == ResolveSafePath \/ Respond

SpecResolve == InitResolve /\ [][NextResolve]_vars

\* a path that is the workspace root or lies below it
InsideWorkspace(p) == p = WORKSPACE_ROOT \/ HasPrefix(p, WORKSPACE_ROOT \o <<"/">>)

\* C21: in workspace mode resolveSafePath throws or returns a path inside
\* the workspace root
ResolvedInsideWorkspace ==
    pc = "returned" /\ call.op = "resolveSafePath" /\ call.mode = "workspace" /\ ret.ok
        => InsideWorkspace(ret.val)

(***************************************************************************)
(* server.js: ast_rename_symbol and ast_add_import.                        *)
(***************************************************************************)
\* original.replace(new RegExp(`\\b${old_name}\\b`, 'g'), new_name): a word
\* token is the text between two word boundaries
ReplaceWord(original, old_name, new_name) == [i \in 1..Len(original) |-> IF original[i] = old_name THEN new_name ELSE original[i]]

\* (original.match(regex) || []).length
CountWord(original, old_name) == Cardinality({i \in 1..Len(original) : original[i] = old_name})

\* the handler after the backup: [file, backups, ret]
AstRenameSymbolDone(original, bk1, old_name, new_name) ==
    IF CountWord(original, old_name) = 0
    THEN [file |-> original, backups |-> bk1, ret |-> Throw(<<"Symbol not found in file">>)]
    ELSE [file |-> ReplaceWord(original, old_name, new_name), backups |-> bk1,
          ret |-> Ret([status |-> "success", action |-> "ast_renamed", old_name |-> old_name,
                       new_name |-> new_name, occurrences |-> CountWord(original, old_name),
                       backup |-> LastTime(bk1)])]

\* the handler of the ast_rename_symbol tool
AstRenameSymbolHandler(original, bk, now, fileExt, exists, old_name, new_name) ==
    IF detectLanguage(fileExt) = ""
    THEN [file |-> original, backups |-> bk, ret |-> Throw(<<"Unsupported file type for AST">>)]
    ELSE IF ~exists
    THEN [file |-> original, backups |-> bk, ret |-> Throw(<<"File not found">>)]
    ELSE AstRenameSymbolDone(original, backupFile(bk, original, now), old_name, new_name)

\* files with the renamed word as identifier, in a string and in a comment
EditChunks == {FnAdd, CallAdd, StrAdd, StrAddCallAdd, CommentAdd, ImportAdd}
EditSources == EditChunks \cup {s \o <<NL>> \o c : s \in EditChunks, c \in EditChunks}
NewNames == {"sub", "mul"}
EditExtensions == {".ts", ".py", ".rs"}

InitEdit ==
    /\ file \in EditSources
    /\ base = "x"
    /\ ext \in EditExtensions
    /\ grammar = "ok"
    /\ backups = <<>>
    /\ pc = "idle"
    /\ call = NoCall
    /\ ret = NoCall
    /\ tmp = NoFiles
    /\ task = NoTasks

AstRenameSymbolTool ==
    /\ pc = "idle"
    /\ Len(backups) < MaxBackups
    /\ \E exists \in BOOLEAN, old_name \in Names, new_name \in NewNames :
         \E now \in Clock(backups) :
         \E s \in {AstRenameSymbolHandler(file, backups, now, ext, exists, old_name, new_name)} :
             /\ Returns([op |-> "ast_rename_symbol", exists |-> exists,
                         old_name |-> old_name, new_name |-> new_name], s.ret)
             /\ file' = s.file
             /\ backups' = s.backups
    /\ UNCHANGED <<base, ext, grammar>>

\* text.includes(part): part occurs in text as a run of consecutive tokens
Includes(text, part) == \E i \in 0..(Len(text) - Len(part)) : SubSeq(text, i + 1, i + Len(part)) = part

\* String.prototype.trim on a statement: white space at both ends is dropped
RECURSIVE TrimStatement(_)
TrimStatement(s) ==
    IF s # <<>> /\ s[1] \in {WS, NL} THEN TrimStatement(Tail(s))
    ELSE IF s # <<>> /\ s[Len(s)] \in {WS, NL} THEN TrimStatement(SubSeq(s, 1, Len(s) - 1))
    ELSE s

\* parts.join(', ')
RECURSIVE JoinComma(_)
JoinComma(parts) ==
    IF parts = <<>> THEN <<>>
    ELSE IF Len(parts) = 1 THEN parts[1]
    ELSE parts[1] \o <<",">> \o JoinComma(Tail(parts))

Singletons(names) == [i \in 1..Len(names) |-> <<names[i]>>]

\* the parts of a JavaScript import: default, import-all name, { named }
ImportParts(named_imports, default_import, import_all_as) ==
    (IF default_import # "" THEN <<<<default_import>>>> ELSE <<>>)
    \o (IF import_all_as # "" THEN <<<<import_all_as>>>> ELSE <<>>)
    \o (IF Len(named_imports) > 0 THEN <<<<"{">> \o JoinComma(Singletons(named_imports)) \o <<"}">>>> ELSE <<>>)

\* importStatement, with its final \n
ImportStatement(fileExt, module_source, named_imports, default_import, import_all_as) ==
    IF fileExt = ".py"
    THEN IF Len(named_imports) > 0
         THEN <<"from">> \o module_source \o <<"import">> \o JoinComma(Singletons(named_imports)) \o <<NL>>
         ELSE <<"import">> \o module_source \o <<NL>>
    ELSE IF ImportParts(named_imports, default_import, import_all_as) = <<>>
         THEN <<"import", QUOTE>> \o module_source \o <<QUOTE, ";", NL>>
         ELSE <<"import">> \o JoinComma(ImportParts(named_imports, default_import, import_all_as))
              \o <<"from", QUOTE>> \o module_source \o <<QUOTE, ";", NL>>

\* the tests of the insertion loop on a trimmed line
IsImportLine(line) ==
    \/ StartsWith(line, {"import", "from", "require("})
    \/ StartsWith(line, {"const"}) /\ Includes(line, <<"require(">>)

EndsImportBlock(line) ==
    /\ line # <<>>
    /\ ~StartsWith(line, {"//", "#", "/*"})
    /\ ~(Len(line) >= 2 /\ line[1] = QUOTE /\ line[2] = "use strict")

\* the loop that finds insertIndex, from row i (0-based) on
RECURSIVE InsertIndexFrom(_, _, _)
InsertIndexFrom(lines, i, insertIndex) ==
    IF i >= Len(lines) THEN insertIndex
    ELSE IF IsImportLine(TrimStatement(lines[i + 1])) THEN InsertIndexFrom(lines, i + 1, i + 1)
    ELSE IF EndsImportBlock(TrimStatement(lines[i + 1])) THEN insertIndex
    ELSE InsertIndexFrom(lines, i + 1, insertIndex)

\* lines.splice(insertIndex, 0, statement); lines.join('\n')
InsertLine(lines, insertIndex, statement) == JoinLines(SubSeq(lines, 1, insertIndex) \o <<statement>> \o SubSeq(lines, insertIndex + 1, Len(lines)))

\* the handler after the backup: [file, backups, ret]
AstAddImportDone(original, bk1, statement, module_source) ==
    IF Includes(original, module_source)
    THEN [file |-> original, backups |-> bk1, ret |-> Ret([status |-> "skipped"])]
    ELSE [file |-> InsertLine(SplitLines(original), InsertIndexFrom(SplitLines(original), 0, 0), TrimStatement(statement)),
          backups |-> bk1,
          ret |-> Ret([status |-> "success", action |-> "import_added",
                       import |-> TrimStatement(statement),
                       at_line |-> InsertIndexFrom(SplitLines(original), 0, 0) + 1,
                       backup |-> LastTime(bk1)])]

\* the handler of the ast_add_import tool
AstAddImportHandler(original, bk, now, fileExt, exists, module_source, named_imports, default_import, import_all_as) ==
    IF ~exists
    THEN [file |-> original, backups |-> bk, ret |-> Throw(<<"File not found">>)]
    ELSE AstAddImportDone(original, backupFile(bk, original, now),
                          ImportStatement(fileExt, module_source, named_imports, default_import, import_all_as),
                          module_source)

\* module names: a word, a word of the file, a name with a blank at its end
ModuleSources == {<<"react">>, <<"add">>, <<"os", WS>>}
NamedImports == {<<>>, <<"useState">>}
DefaultImports == {"", "React"}

AstAddImportTool ==
    /\ pc = "idle"
    /\ Len(backups) < MaxBackups
    /\ \E exists \in BOOLEAN, m \in ModuleSources, n \in NamedImports, d \in DefaultImports :
         \E now \in Clock(backups) :
         \E s \in {AstAddImportHandler(file, backups, now, ext, exists, m, n, d, "")} :
             /\ Returns([op |-> "ast_add_import", exists |-> exists, module_source |-> m,
                         named_imports |-> n, default_import |-> d, import_all_as |-> ""], s.ret)
             /\ file' = s.file
             /\ backups' = s.backups
    /\ UNCHANGED <<base, ext, grammar>>

NextEdit == AstRenameSymbolTool \/ AstAddImportTool \/ Respond

SpecEdit == InitEdit /\ [][NextEdit]_vars

\* offset i of text s lies in a comment: a comment opener precedes it on its line
InCommentAt(s, i) == \E j \in 1..(i - 1) : s[j] \in {"//", "#"} /\ \A k \in j..i : s[k] # NL

\* offset i of text s lies between the quotes of a string literal of its line
InStringAt(s, i) ==
    /\ \E a \in 1..(i - 1) :
          /\ s[a] = QUOTE
          /\ \A k \in a..i : s[k] # NL
          /\ Cardinality({j \in a..(i - 1) : s[j] = QUOTE}) % 2 = 1
          /\ \A j \in 1..(a - 1) : s[j] = QUOTE => \E k \in j..a : s[k] = NL
    /\ \E b \in (i + 1)..Len(s) : s[b] = QUOTE /\ \A k \in i..b : s[k] # NL

\* C22: ast_rename_symbol renames every identifier occurrence of old_name
\* and leaves its occurrences in string literals and comments as they were
RenameSparesStringsAndComments ==
    [][pc = "idle" /\ call'.op = "ast_rename_symbol" /\ ret'.ok =>
          /\ Len(file') = Len(file)
          /\ \A i \in 1..Len(file) :
                IF file[i] # call'.old_name THEN file'[i] = file[i]
                ELSE IF InStringAt(file, i) \/ InCommentAt(file, i) THEN file'[i] = file[i]
                ELSE file'[i] = call'.new_name]_vars

\* the file has a line that imports from module m
ImportsFrom(text, m) == \E k \in 1..Len(SplitLines(text)) : StartsWith(SplitLines(text)[k], {"import", "from"}) /\ Includes(SplitLines(text)[k], m)

\* the file after the call in `call` is made once more on text
AddedAgain(text) == AstAddImportHandler(text, <<>>, 1, ext, TRUE, call.module_source, call.named_imports, call.default_import, call.import_all_as).file

\* C23: ast_add_import leaves a file that already imports from module_source
\* unchanged, and the same call made again on its result changes nothing
AddImportIsIdempotent ==
    [][pc = "idle" /\ call'.op = "ast_add_import" /\ ret'.ok =>
          /\ ImportsFrom(file, call'.module_source) => file' = file
          /\ AddedAgain(file)' = file']_vars

(***************************************************************************)
(* CodeLinter: lintCode / lintFile.  An issue is a record [line, column,   *)
(* rule, severity, source].  The external linter (eslint, flake8) is a     *)
(* separate process that reads the file it was given some time after it    *)
(* was spawned; what it reports is a function of the content it reads.     *)
(***************************************************************************)
Issue(line, column, rule, severity, source) == [line |-> line, column |-> column, rule |-> rule, severity |-> severity, source |-> source]

\* the entries of BUG_PATTERNS that the modelled codes can match
BUG_PATTERNS(language) ==
    IF language \in {"javascript", "typescript"}
    THEN << [pattern |-> <<Lit({"debugger"})>>, severity |-> "warning", rule |-> "no-debugger"],
            [pattern |-> <<Lit({"eval"}), Lit({"()"})>>, severity |-> "error", rule |-> "no-eval"],
            [pattern |-> <<Lit({"var"}), Cap, Lit({"="})>>, severity |-> "info", rule |-> "no-var"] >>
    ELSE IF language = "python"
    THEN << [pattern |-> <<Lit({"print"}), Lit({"()"})>>, severity |-> "info", rule |-> "no-print"],
            [pattern |-> <<Lit({"eval"}), Lit({"()"})>>, severity |-> "error", rule |-> "no-eval"] >>
    ELSE <<>>

\* 0-based offset of the first token of the row that holds offset off
LineStartOf(content, off) == IF \E j \in 1..off : content[j] = NL THEN CHOOSE j \in 1..off : content[j] = NL /\ \A k \in (j + 1)..off : content[k] # NL ELSE 0

\* CodeLinter._isInComment on the text of the line up to the match's column
LintInComment(content, off, language) ==
    \E j \in (LineStartOf(content, off) + 1)..(off + 1) :
        IF language \in {"javascript", "typescript", "java", "go"} THEN content[j] \in {"//", "/*"}
        ELSE language = "python" /\ content[j] = "#"

\* the while loop of pattern.exec(content) with the cursor at offset off
RECURSIVE ExecFrom(_, _, _, _)
ExecFrom(entry, content, off, language) ==
    IF off >= Len(content) THEN <<>>
    ELSE IF ~Test(entry.pattern, SubSeq(content, off + 1, Len(content)))
    THEN ExecFrom(entry, content, off + 1, language)
    ELSE (IF LintInComment(content, off, language) THEN <<>>
          ELSE <<Issue(RowOf(content, off) + 1, off - LineStartOf(content, off) + 1,
                       entry.rule, entry.severity, "pattern-detector")>>)
         \o ExecFrom(entry, content, off + Len(entry.pattern), language)

\* checkPatterns: pattern.lastIndex = 0, then the loop, for every entry.  It
\* has no await, so it is one step, and the loop leaves lastIndex at 0
RECURSIVE PatternsFrom(_, _, _)
PatternsFrom(content, language, k) ==
    IF k > Len(BUG_PATTERNS(language)) THEN <<>>
    ELSE ExecFrom(BUG_PATTERNS(language)[k], content, 0, language) \o PatternsFrom(content, language, k + 1)

checkPatterns(content, language) == PatternsFrom(content, language, 1)

\* the braces of the text do not pair up: the parsers report an error
Unbalanced(content) == BraceDelta(content) # 0

\* checkSyntax: the ERROR / MISSING nodes of the tree-sitter tree
checkSyntax(content, language) ==
    IF Unbalanced(content) THEN <<Issue(1, 1, "syntax-error", "error", "tree-sitter")>> ELSE <<>>

Missing == <<"ENOENT">>

\* config.parseOutput of what the linter prints for the content it read
LinterIssues(read, language) ==
    IF read = Missing THEN <<>>
    ELSE IF Unbalanced(read)
    THEN <<Issue(Len(SplitLines(read)), 1, IF language = "python" THEN "E999" ELSE "eslint", "error",
                 IF language = "python" THEN "flake8" ELSE "eslint")>>
    ELSE <<>>

\* _formatResults: first issue of every line:column:rule
RECURSIVE Unique(_)
Unique(issues) ==
    IF issues = <<>> THEN <<>>
    ELSE LET rest == Unique(SubSeq(issues, 1, Len(issues) - 1))
             last == issues[Len(issues)]
         IN  IF \E j \in 1..Len(rest) : rest[j].line = last.line /\ rest[j].column = last.column /\ rest[j].rule = last.rule
             THEN rest ELSE Append(rest, last)

OfSeverity(issues, severity) == SelectSeq(issues, LAMBDA i : i.severity = severity)

_formatResults(allIssues) ==
    [errors |-> SortByLine(OfSeverity(Unique(allIssues), "error")),
     warnings |-> SortByLine(OfSeverity(Unique(allIssues), "warning")),
     info |-> SortByLine(OfSeverity(Unique(allIssues), "info")),
     total |-> Len(Unique(allIssues))]

\* lintFile with the issues the external linter reported
lintFile(content, language, linterIssues) == _formatResults(checkSyntax(content, language) \o checkPatterns(content, language) \o linterIssues)

\* _getExtension
_getExtension(language) ==
    CASE language = "javascript" -> ".js"
      [] language = "typescript" -> ".ts"
      [] language = "python" -> ".py"
      [] language = "go" -> ".go"
      [] language = "java" -> ".java"
      [] OTHER -> ".txt"

\* path.join('/tmp', `lint_${Date.now()}${this._getExtension(language)}`)
TempFile(now, language) == <<"/tmp/lint_", now, _getExtension(language)>>

MaxLintClock == 2
Tasks == {1, 2}
LintLanguages == {"javascript", "python"}
LintCodes == {<<"debugger">>, <<"//", "debugger">>, <<"x", "=", "x", NL, "print", "()">>, <<"function", "add", "()", "{">>}

IdleTask == [pc |-> "idle"]

\* the temporary files of the calls whose linter has not finished
Active(t) == task[t].pc \in {"spawned", "exited"}

\* Date.now() read by a call: time does not go back, and a call that overlaps
\* another one may read the millisecond the other one read
LintClock(t) ==
    IF \E u \in Tasks \ {t} : Active(u)
    THEN UNION {{task[u].now, task[u].now + 1} : u \in {v \in Tasks \ {t} : Active(v)}}
    ELSE {1}

Written(files, name, content) == (name :> content) @@ files
Unlinked(files, name) == [n \in DOMAIN files \ {name} |-> files[n]]
ReadFile(files, name) == IF name \in DOMAIN files THEN files[name] ELSE Missing

InitLint ==
    /\ file = FnAdd
    /\ base = "x"
    /\ ext = ".ts"
    /\ grammar = "ok"
    /\ backups = <<>>
    /\ pc = "idle"
    /\ call = NoCall
    /\ ret = NoCall
    /\ tmp = NoFiles
    /\ task = [t \in Tasks |-> IdleTask]

\* lintCode up to the await of _execCommand: the three in-process layers run,
\* runLinter writes the code to its temporary file and spawns the linter
LintCodeSpawn(t) ==
    /\ task[t].pc = "idle"
    /\ \E code \in LintCodes, language \in LintLanguages, now \in LintClock(t) :
          /\ now <= MaxLintClock
          /\ tmp' = Written(tmp, TempFile(now, language), code)
          /\ task' = [task EXCEPT ![t] = [pc |-> "spawned", code |-> code, language |-> language, now |-> now]]
    /\ UNCHANGED <<file, base, ext, grammar, backups, pc, call, ret>>

\* the linter process reads the file named on its command line and exits
LinterRuns(t) ==
    /\ task[t].pc = "spawned"
    /\ task' = [task EXCEPT ![t] = [@ EXCEPT !.pc = "exited"] @@ [output |-> LinterIssues(ReadFile(tmp, TempFile(task[t].now, task[t].language)), task[t].language)]]
    /\ UNCHANGED <<file, base, ext, grammar, backups, pc, call, ret, tmp>>

\* runLinter resumes: the output is parsed, the temporary file is unlinked,
\* lintFile formats the result
LintCodeDone(t) ==
    /\ task[t].pc = "exited"
    /\ tmp' = Unlinked(tmp, TempFile(task[t].now, task[t].language))
    /\ task' = [task EXCEPT ![t] = [pc |-> "done", code |-> task[t].code, language |-> task[t].language,
                                     result |-> lintFile(task[t].code, task[t].language, task[t].output)]]
    /\ UNCHANGED <<file, base, ext, grammar, backups, pc, call, ret>>

\* the caller takes the result
LintCodeReturn(t) ==
    /\ task[t].pc = "done"
    /\ task' = [task EXCEPT ![t] = IdleTask]
    /\ UNCHANGED <<file, base, ext, grammar, backups, pc, call, ret, tmp>>

NextLint == \E t \in Tasks : LintCodeSpawn(t) \/ LinterRuns(t) \/ LintCodeDone(t) \/ LintCodeReturn(t)

SpecLint == InitLint /\ [][NextLint]_vars

\* the result of lintCode(code, language) when no other call is in progress
LintedAlone(code, language) == lintFile(code, language, LinterIssues(code, language))

\* C24: the result of every lint call equals the result the same call
\* returns when it runs alone
LintCallsDoNotInterfere ==
    \A t \in Tasks : task[t].pc = "done" => task[t].result = LintedAlone(task[t].code, task[t].language)

\* the search engine parsed the current file: _classifyLine judges its hits
SearchAstPath ==
    /\ ExtensionToLanguage(ext) # ""
    /\ NewAnalyzer(ExtensionToLanguage(ext), grammar).useAST
    /\ ~NewAnalyzer(ExtensionToLanguage(ext), grammar).crash

\* the checks of the decision list in their order, for one hit
ChecksOf(hit, pattern, language, node) ==
    << [holds |-> _isComment(Trim(hit.content), language), label |-> "comment"],
       [holds |-> _isImportLine(Trim(hit.content), language), label |-> "import"],
       [holds |-> _isInStringLiteral(Trim(hit.content), pattern), label |-> "string"],
       [holds |-> node.type \in DefinitionTypes \/ node.parentType \in DefinitionTypes, label |-> "definition"],
       [holds |-> node.type = "call_expression" \/ node.parentType \in {"call_expression", "arguments"}, label |-> "usage"],
       [holds |-> \E k \in 1..Len(DefinitionPatterns) : Test(DefinitionPatterns[k], Trim(hit.content)), label |-> "definition"],
       [holds |-> TRUE, label |-> "usage"] >>

\* the label of the first check that holds
FirstLabel(checks) == checks[CHOOSE i \in 1..Len(checks) : checks[i].holds /\ \A j \in 1..(i - 1) : ~checks[j].holds].label

ExportStatements(tree) == {i \in 1..Len(tree) : tree[i].type = "export_statement"}

\* the names declared by the declaration an export statement wraps
WrappedNames(tree, i) == {tree[d].name : d \in {c \in 1..Len(tree) : tree[c].name # "" /\ (tree[c].parent = i \/ (tree[c].parent # 0 /\ tree[tree[c].parent].parent = i /\ tree[c].type = "variable_declarator"))}}

\* the outline entries for name n on the rows of node i
EntriesOn(outline, toks, node, n) == {k \in 1..Len(outline) : outline[k].name = n /\ outline[k].line >= StartRow(toks, node) + 1 /\ outline[k].line <= EndRow(toks, node) + 1}

\* C26: a declaration wrapped in an export statement has one outline entry,
\* flagged exported and placed on the export statement's start line
ExportedDeclarationOnce ==
    Returned("getOutline") /\ AstPath =>
        \A i \in ExportStatements(ParseTree(file)) :
            \A n \in WrappedNames(ParseTree(file), i) :
                /\ Cardinality(EntriesOn(ret.val, file, ParseTree(file)[i], n)) = 1
                /\ \A k \in EntriesOn(ret.val, file, ParseTree(file)[i], n) :
                      /\ ret.val[k].exported
                      /\ ret.val[k].line = StartRow(file, ParseTree(file)[i]) + 1

\* lines for the regex outline: declarations, a blank line, a comment, lines
\* that start with or hold a control-flow keyword
IfLine == <<WS, "if", "()", "{", "}">>
ClassNewAdd == <<"class", "new", "add", "()", "{", "}">>
ReturnLine == <<"return">>
OutlineChunks == {FnAdd, ClassX, Blank, CommentAdd, IfLine, ClassNewAdd, ReturnLine}
OutlineSources == OutlineChunks \cup {s \o <<NL>> \o c : s \in OutlineChunks, c \in OutlineChunks}

InitOutline ==
    /\ file \in OutlineSources
    /\ base = "x"
    /\ ext \in Extensions
    /\ grammar \in Grammars
    /\ backups = <<>>
    /\ pc = "idle"
    /\ call = NoCall
    /\ ret = NoCall
    /\ tmp = NoFiles
    /\ task = NoTasks

NextOutline == GetOutline \/ Respond

SpecOutline == InitOutline /\ [][NextOutline]_vars

ControlKeywords == {"if", "for", "while", "switch", "return", "throw", "new", "try", "catch"}

\* the outline entries on line n
OnRow(outline, n) == {k \in 1..Len(outline) : outline[k].line = n}

BlankOrComment(line) == Trim(line) = <<>> \/ Trim(line)[1] \in {"//", "#", "/*", "*", "\"\"\"", "'''"}

\* the patterns of the table that match the line, and those among them whose
\* captured name is not a control-flow keyword
MatchingPatterns(line) == {k \in 1..Len(OutlinePatterns) : Match(OutlinePatterns[k].regex, line) # <<>>}
NamingPatterns(line) == {k \in MatchingPatterns(line) : Match(OutlinePatterns[k].regex, line)[1] \notin ControlKeywords \cup {""}}

Least(S) == CHOOSE k \in S : \A j \in S : k <= j

\* entry e is the one pattern k gives for the line
EntryOfPattern(e, k, line) == e.type = OutlinePatterns[k].type /\ e.name = Match(OutlinePatterns[k].regex, line)[1]

\* the entries on row n are what the claim allows, ps being the patterns
\* among which the first one names the entry
RowAsClaimed(outline, line, n, ps) ==
    /\ BlankOrComment(line) => OnRow(outline, n) = {}
    /\ Cardinality(OnRow(outline, n)) <= 1
    /\ \A k \in OnRow(outline, n) :
          /\ ps # {}
          /\ EntryOfPattern(outline[k], Least(ps), line)
          /\ outline[k].name \notin ControlKeywords

RegexOutlineReturned == Returned("getOutline") /\ ~AstPath /\ ret.ok

\* C27 as stated: in the regex outline a blank or comment line has no entry,
\* every other line at most one, that of the first pattern that matches the
\* line, and no entry is named by a control-flow keyword
EntryOfFirstMatchingPattern ==
    RegexOutlineReturned =>
        \A n \in 1..Len(SplitLines(file)) :
            RowAsClaimed(ret.val, SplitLines(file)[n], n, MatchingPatterns(SplitLines(file)[n]))

\* C27 amended: the entry of a line is that of the first pattern that matches
\* the line with a captured name that is not an excluded keyword
EntryOfFirstNamingPattern ==
    RegexOutlineReturned =>
        \A n \in 1..Len(SplitLines(file)) :
            RowAsClaimed(ret.val, SplitLines(file)[n], n, NamingPatterns(SplitLines(file)[n]))

\* an outline with no entry for a line on which a pattern captures a
\* keyword, and an entry for a declaration
KeywordLineSkipped ==
    /\ RegexOutlineReturned
    /\ \E n \in 1..Len(SplitLines(file)) :
          /\ MatchingPatterns(SplitLines(file)[n]) # {}
          /\ NamingPatterns(SplitLines(file)[n]) = {}
          /\ OnRow(ret.val, n) = {}
    /\ \E n \in 1..Len(SplitLines(file)) : OnRow(ret.val, n) # {}

\* tree.rootNode.descendantForPosition at the token of 0-based offset off
DescendantAtOffset(tree, toks, off) ==
    IF Tok(toks, off) \in {WS, NL, "<eof>"} \/ TypeOfNode(tree, DeepestAt(tree, off)) = "comment"
    THEN [type |-> TypeOfNode(tree, DeepestAt(tree, off)),
          parentType |-> IF DeepestAt(tree, off) = 0 THEN "" ELSE TypeOfNode(tree, tree[DeepestAt(tree, off)].parent)]
    ELSE [type |-> IF Tok(toks, off) \in Idents THEN "identifier" ELSE Tok(toks, off),
          parentType |-> TypeOfNode(tree, DeepestAt(tree, off))]

\* submatches[0].start of a hit: where the pattern first stands on its line
HitColumn(content, pattern) == (CHOOSE i \in 1..Len(content) : Lower(content[i]) = Lower(pattern) /\ \A j \in 1..(i - 1) : Lower(content[j]) # Lower(pattern)) - 1

\* C28: the AST step of classify judges a hit by the smallest node at the
\* hit's own row and column and by that node's parent
HitJudgedAtItsColumn ==
    Returned("smartSearch") /\ SearchAstPath =>
        \A k \in 1..Len(ret.val) :
            ret.val[k].classification =
                FirstLabel(ChecksOf(ret.val[k], call.pattern, ExtensionToLanguage(ext),
                                    DescendantAtOffset(ParseTree(file), file,
                                        RowStart(file, ret.val[k].line - 1) + HitColumn(ret.val[k].content, call.pattern))))

(***************************************************************************)
(* server.js: replace_exact_line, insert_relative_to_marker,               *)
(* replace_between_markers and apply_diff.                                 *)
(***************************************************************************)
\* String.prototype.indexOf(part, from): -1 when part does not occur
IndexOf(text, part, from) ==
    IF \E i \in from..(Len(text) - Len(part)) : SubSeq(text, i + 1, i + Len(part)) = part
    THEN CHOOSE i \in from..(Len(text) - Len(part)) :
             /\ SubSeq(text, i + 1, i + Len(part)) = part
             /\ \A j \in from..(i - 1) : SubSeq(text, j + 1, j + Len(part)) # part
    ELSE -1

\* original.slice(0, from) + newContent + original.slice(to)
SlicedAround(original, from, to, newContent) == SubSeq(original, 1, from) \o newContent \o SubSeq(original, to + 1, Len(original))

\* the lines that equal line_to_find
LinesEqual(lines, line_to_find) == {i \in 1..Len(lines) : lines[i] = line_to_find}

\* the handler of the replace_exact_line tool
ReplaceExactLineHandler(original, bk, now, exists, line_to_find, replacement_line) ==
    IF ~exists
    THEN [file |-> original, backups |-> bk, ret |-> Throw(<<"File not found">>)]
    ELSE IF LinesEqual(SplitLines(original), line_to_find) = {}
    THEN [file |-> original, backups |-> bk, ret |-> Throw(<<"Exact line not found">>)]
    ELSE [file |-> JoinLines([SplitLines(original) EXCEPT ![Least(LinesEqual(SplitLines(original), line_to_find))] = replacement_line]),
          backups |-> backupFile(bk, original, now),
          ret |-> Ret([status |-> "success", action |-> "replaced_line",
                       at_line |-> Least(LinesEqual(SplitLines(original), line_to_find)),
                       backup |-> now])]

\* the insert_relative_to_marker handler after the backup
InsertRelativeToMarkerDone(original, bk1, markerIndex, marker, position, newContent) ==
    IF markerIndex = -1
    THEN [file |-> original, backups |-> bk1, ret |-> Throw(<<"Marker not found">>)]
    ELSE [file |-> IF position = "before"
                   THEN SlicedAround(original, markerIndex, markerIndex, newContent)
                   ELSE SlicedAround(original, markerIndex + Len(marker), markerIndex + Len(marker), newContent),
          backups |-> bk1,
          ret |-> Ret([status |-> "success", action |-> "inserted", position |-> position,
                       backup |-> LastTime(bk1)])]

\* the handler of the insert_relative_to_marker tool
InsertRelativeToMarkerHandler(original, bk, now, exists, marker, position, newContent) ==
    IF ~exists
    THEN [file |-> original, backups |-> bk, ret |-> Throw(<<"File not found">>)]
    ELSE InsertRelativeToMarkerDone(original, backupFile(bk, original, now),
                                    IndexOf(original, marker, 0), marker, position, newContent)

\* the end of the replace_between_markers handler: both markers were found
ReplaceBetweenFound(original, bk1, startIdx, endIdx, start_marker, end_marker, newContent, include_markers) ==
    [file |-> SlicedAround(original,
                      IF include_markers THEN startIdx ELSE startIdx + Len(start_marker),
                      IF include_markers THEN endIdx + Len(end_marker) ELSE endIdx,
                      newContent),
     backups |-> bk1,
     ret |-> Ret([status |-> "success", action |-> "replaced_between_markers",
                  backup |-> LastTime(bk1)])]

\* the replace_between_markers handler after the backup
ReplaceBetweenMarkersDone(original, bk1, startIdx, start_marker, end_marker, newContent, include_markers) ==
    IF startIdx = -1
    THEN [file |-> original, backups |-> bk1, ret |-> Throw(<<"Start marker not found">>)]
    ELSE IF IndexOf(original, end_marker, IF include_markers THEN startIdx ELSE startIdx + Len(start_marker)) = -1
    THEN [file |-> original, backups |-> bk1, ret |-> Throw(<<"End marker not found">>)]
    ELSE ReplaceBetweenFound(original, bk1, startIdx,
             IndexOf(original, end_marker, IF include_markers THEN startIdx ELSE startIdx + Len(start_marker)),
             start_marker, end_marker, newContent, include_markers)

\* the handler of the replace_between_markers tool
ReplaceBetweenMarkersHandler(original, bk, now, exists, start_marker, end_marker, newContent, include_markers) ==
    IF ~exists
    THEN [file |-> original, backups |-> bk, ret |-> Throw(<<"File not found">>)]
    ELSE ReplaceBetweenMarkersDone(original, backupFile(bk, original, now),
                                   IndexOf(original, start_marker, 0),
                                   start_marker, end_marker, newContent, include_markers)

\* diff.applyPatch(text, patch) for a patch of one hunk that replaces the line
\* patch.old by the line patch.new: the hunk is placed on the line equal to
\* patch.old that lies nearest to patch.line, the later one of two equally
\* near; applyPatch is false when no line equals patch.old
NearestLine(ls, n) == CHOOSE i \in ls : \A j \in ls : Max(i - n, n - i) < Max(j - n, n - j) \/ (Max(i - n, n - i) = Max(j - n, n - j) /\ j <= i)

PatchApplies(text, patch) == LinesEqual(SplitLines(text), patch.old) # {}

\* the text diff.applyPatch returns when it does not return false
applyPatch(text, patch) ==
    JoinLines([SplitLines(text) EXCEPT ![NearestLine(LinesEqual(SplitLines(text), patch.old), patch.line)] = patch.new])

\* the loop over the patches: [ok, result]
RECURSIVE ApplyPatches(_, _)
ApplyPatches(result, patches) ==
    IF patches = <<>> THEN [ok |-> TRUE, result |-> result]
    ELSE IF ~PatchApplies(result, Head(patches)) THEN [ok |-> FALSE, result |-> result]
    ELSE ApplyPatches(applyPatch(result, Head(patches)), Tail(patches))

\* the apply_diff handler after the backup; patches is diff.parsePatch(diff_content)
ApplyDiffDone(original, bk1, patches) ==
    IF Len(patches) = 0
    THEN [file |-> original, backups |-> bk1, ret |-> Throw(<<"Invalid or empty diff">>)]
    ELSE IF ~ApplyPatches(original, patches).ok
    THEN [file |-> original, backups |-> bk1, ret |-> Throw(<<"Failed to apply patch">>)]
    ELSE [file |-> ApplyPatches(original, patches).result, backups |-> bk1,
          ret |-> Ret([status |-> "success", action |-> "diff_applied", backup |-> LastTime(bk1)])]

\* the handler of the apply_diff tool
ApplyDiffHandler(original, bk, now, exists, patches) ==
    IF ~exists
    THEN [file |-> original, backups |-> bk, ret |-> Throw(<<"File not found">>)]
    ELSE ApplyDiffDone(original, backupFile(bk, original, now), patches)

\* lines and markers that occur in the files and that do not
MarkerLines == {CallAdd, FnAdd, <<"mul", "()">>}
Markers == {<<"add">>, <<"()">>, <<"mul">>}
Positions == {"before", "after"}
Patch(line, old, new) == [line |-> line, old |-> old, new |-> new]
OnePatches == {Patch(n, old, FnSub) : n \in 1..2, old \in MarkerLines}
Diffs == {<<>>} \cup {<<p>> : p \in OnePatches} \cup {<<Patch(1, CallAdd, FnSub), p>> : p \in OnePatches}

InitMarkers ==
    /\ file \in EditSources
    /\ base = "x"
    /\ ext = ".ts"
    /\ grammar = "ok"
    /\ backups = <<>>
    /\ pc = "idle"
    /\ call = NoCall
    /\ ret = NoCall
    /\ tmp = NoFiles
    /\ task = NoTasks

ReplaceExactLineTool ==
    /\ pc = "idle"
    /\ Len(backups) < MaxBackups
    /\ \E exists \in BOOLEAN, line_to_find \in MarkerLines :
         \E now \in Clock(backups) :
         \E s \in {ReplaceExactLineHandler(file, backups, now, exists, line_to_find, FnSub)} :
             /\ Returns([op |-> "replace_exact_line", exists |-> exists, line_to_find |-> line_to_find], s.ret)
             /\ file' = s.file
             /\ backups' = s.backups
    /\ UNCHANGED <<base, ext, grammar>>

InsertRelativeToMarkerTool ==
    /\ pc = "idle"
    /\ Len(backups) < MaxBackups
    /\ \E exists \in BOOLEAN, marker \in Markers, position \in Positions :
         \E now \in Clock(backups) :
         \E s \in {InsertRelativeToMarkerHandler(file, backups, now, exists, marker, position, <<"x">>)} :
             /\ Returns([op |-> "insert_relative_to_marker", exists |-> exists, marker |-> marker, position |-> position], s.ret)
             /\ file' = s.file
             /\ backups' = s.backups
    /\ UNCHANGED <<base, ext, grammar>>

ReplaceBetweenMarkersTool ==
    /\ pc = "idle"
    /\ Len(backups) < MaxBackups
    /\ \E exists \in BOOLEAN, start_marker \in Markers, end_marker \in Markers, include_markers \in BOOLEAN :
         \E now \in Clock(backups) :
         \E s \in {ReplaceBetweenMarkersHandler(file, backups, now, exists, start_marker, end_marker, <<"x">>, include_markers)} :
             /\ Returns([op |-> "replace_between_markers", exists |-> exists, start_marker |-> start_marker,
                         end_marker |-> end_marker, include_markers |-> include_markers], s.ret)
             /\ file' = s.file
             /\ backups' = s.backups
    /\ UNCHANGED <<base, ext, grammar>>

ApplyDiffTool ==
    /\ pc = "idle"
    /\ Len(backups) < MaxBackups
    /\ \E exists \in BOOLEAN, patches \in Diffs :
         \E now \in Clock(backups) :
         \E s \in {ApplyDiffHandler(file, backups, now, exists, patches)} :
             /\ Returns([op |-> "apply_diff", exists |-> exists, patches |-> patches], s.ret)
             /\ file' = s.file
             /\ backups' = s.backups
    /\ UNCHANGED <<base, ext, grammar>>

NextMarkers == ReplaceExactLineTool \/ InsertRelativeToMarkerTool \/ ReplaceBetweenMarkersTool \/ ApplyDiffTool \/ Respond

SpecMarkers == InitMarkers /\ [][NextMarkers]_vars

TextEditTools == {"replace_exact_line", "insert_relative_to_marker", "replace_between_markers", "apply_diff"}

\* C29: a call of replace_exact_line, insert_relative_to_marker,
\* replace_between_markers or apply_diff that fails leaves the file's content
\* as it was and adds no backup file
FailedEditLeavesStateAlone ==
    [][(pc' = "returned" /\ call'.op \in TextEditTools /\ ~ret'.ok)
          => (file' = file /\ BackupNames(backups') = BackupNames(backups) /\ BackupsKept(backups, backups'))]_vars

\* the lines of the text with the rows startIdx..endIdx replaced by newContent
LinesAround(lines, startIdx, endIdx, newContent) ==
    SubSeq(lines, 1, startIdx) \o SplitLines(newContent) \o SubSeq(lines, endIdx + 2, Len(lines))

\* C30: the regex replacement keeps every line outside the replaced span:
\* the result is the lines before the span, the lines of newContent, the
\* lines after the span, blank first and last lines included
RegexReplaceKeepsOtherLines ==
    Returned("replaceElement") /\ ~AstPath /\ ret.ok =>
        SplitLines(ret.val) =
            LinesAround(SplitLines(file),
                        FindStartIdx(SplitLines(file), call.name, call.type),
                        FindEndIdx(SplitLines(file), FindStartIdx(SplitLines(file), call.name, call.type),
                                   FindStartIdx(SplitLines(file), call.name, call.type), 0, FALSE),
                        call.newContent)

====
